---- MODULE Spec2Model ----
(***************************************************************************)
(* Model of the order lifecycle and position-netting logic of the          *)
(* TradeLocker python client (src/src/tradelocker/tradelocker_api.py).     *)
(*                                                                         *)
(* Quantities are integers counted in units of 1e-7 lots, one decimal      *)
(* finer than _SIZE_PRECISION, so that round(size, 6) is a real operation. *)
(* The client is single threaded and synchronous: every public call is one *)
(* atomic action which carries out all the Gateway requests of that call.  *)
(* The broker (Gateway) is the environment: it keeps the open positions    *)
(* and the all-time order ledger and answers each request.                 *)
(***************************************************************************)
EXTENDS Integers, Sequences, FiniteSets, TLC

VARIABLES
    positions,   \* Gateway: open positions, position id -> record
    history,     \* Gateway: all-time order ledger (ordersHistory), in row order
    cache,       \* client: cached Gateway resources ("config", "instruments")
    call,        \* the last public call: its arguments and its outcome
    log,         \* the Gateway requests the last call issued, in order
    pre,         \* the open positions when the last call started
    callsLeft,   \* how many more state-changing calls this run explores
    scen,        \* progress of the end-to-end netting scenario (0 = not in it)
    rt,          \* one run of the retry wrapper around a request, step by step
    tk,          \* one client with its tokens, sending a request, step by step
    clock,       \* the time, in seconds
    accounts,    \* server: the account list of the user (all-accounts)
    registry,    \* TLAPI._instances: constructor arguments -> object
    objects,     \* the TLAPI objects ever created, by identity
    made,        \* the last construction: its arguments and how it went
    ph,          \* the last price-history call: its arguments and how it went
    fetched      \* client: the history requests already answered (cached)

\* the variables of the trading calls, and those of the other parts
tradeVars == <<positions, history, cache, call, log, pre, callsLeft, scen>>

retryVars == <<rt>>

tokenVars == <<tk>>

sessionVars == <<clock, accounts, registry, objects, made>>

historyVars == <<ph, fetched>>

vars == <<positions, history, cache, call, log, pre, callsLeft, scen, rt, tk,
          clock, accounts, registry, objects, made, ph, fetched>>

\* Each specification below moves one part of the client; the variables of
\* the other parts rest at this value.
Idle == "idle"

RetryIdle == rt = Idle

TokenIdle == tk = Idle

SessionIdle ==
    /\ clock = Idle
    /\ accounts = Idle
    /\ registry = Idle
    /\ objects = Idle
    /\ made = Idle

HistoryIdle == ph = Idle /\ fetched = Idle

-----------------------------------------------------------------------------
(* Program constants, in units of 1e-7 *)

UnitsPerOne == 10 * 1000 * 1000      \* 1.0 lot
EPS == 100                           \* _EPS = 0.00001
MIN_LOT_SIZE == 100000               \* _MIN_LOT_SIZE = 0.01
SIZE_PRECISION == 6                  \* _SIZE_PRECISION
MAX_STRATEGY_ID_LEN == 32            \* _MAX_STRATEGY_ID_LEN

None == 0 - 1                        \* an absent optional number
NoneStr == "None"                    \* an absent optional string

(* Bounds of the exploration *)

MaxInitPositions == 3    \* open positions an account starts with, at most
MaxCalls == 2            \* state-changing calls explored from an account

-----------------------------------------------------------------------------
(* Arithmetic helpers *)

Abs(x) == IF x < 0 THEN 0 - x ELSE x

Min(a, b) == IF a <= b THEN a ELSE b

RECURSIVE Pow10(_)
Pow10(n) == IF n = 0 THEN 1 ELSE 10 * Pow10(n - 1)

\* one unit of the last kept decimal, in units of 1e-7
RoundStep == UnitsPerOne \div Pow10(SIZE_PRECISION)

\* no rounding at all
RoundNone(x) == x

\* round(x, _SIZE_PRECISION): to the nearest multiple of RoundStep, ties to even
Round(x) ==
    LET lo == (x \div RoundStep) * RoundStep
        r == x - lo
    IN  IF 2 * r < RoundStep THEN lo
        ELSE IF 2 * r > RoundStep THEN lo + RoundStep
        ELSE IF (lo \div RoundStep) % 2 = 0 THEN lo ELSE lo + RoundStep

RECURSIVE SeqSum(_)
SeqSum(s) == IF s = <<>> THEN 0 ELSE Head(s) + SeqSum(Tail(s))

OppositeSide(side) == IF side = "buy" THEN "sell" ELSE "buy"

\* F applied to the value of v, v being computed once
Let(v, F(_)) == CHOOSE out \in {F(x) : x \in {v}} : TRUE

-----------------------------------------------------------------------------
(* The retry wrapper of every request: utils.retry around requests.<method> *)

MAX_RETRIES == 3                     \* max_retries

\* What the transport does to the successive invocations of one request:
\* plan[n] is the exception the n-th invocation raises, and an invocation
\* past the end of the plan returns the response.  "ReadTimeout" (the request
\* reached the broker, the answer was lost) and "ConnectionError" (it never
\* arrived) are RequestExceptions, "OtherError" is any other exception.
RequestExceptions == {"ReadTimeout", "ConnectionError"}

Attempt(plan, n) == IF n <= Len(plan) THEN plan[n] ELSE "ok"

\* wrapper(*args): about to enter the for loop
RetryStart(plan) ==
    [plan |-> plan, pc |-> "loop", attempt |-> 0, invoked |-> 0, result |-> "none"]

\* the guarded attempts are given up after the first failure
RetryStepOnce(s) ==
    IF s.pc = "loop"
    THEN IF s.attempt >= 1
         THEN [s EXCEPT !.pc = "final"]
         ELSE LET out == Attempt(s.plan, s.invoked + 1)
              IN  IF out \in RequestExceptions
                  THEN [s EXCEPT !.invoked = @ + 1, !.attempt = @ + 1]
                  ELSE [s EXCEPT !.invoked = @ + 1, !.pc = "done", !.result = out]
    ELSE IF s.pc = "final"
    THEN [s EXCEPT !.invoked = @ + 1, !.pc = "done",
                   !.result = Attempt(s.plan, s.invoked + 1)]
    ELSE s

\* One step of wrapper: an iteration of "for attempt in range(max_retries)"
\* (the invocation returns, raises a RequestException, which is logged and
\* dropped, or raises anything else, which leaves the wrapper), or the
\* unguarded "return func(*args, **kwargs)" after the loop.
RetryStep(s) ==
    IF s.pc = "loop"
    THEN IF s.attempt >= MAX_RETRIES
         THEN [s EXCEPT !.pc = "final"]
         ELSE LET out == Attempt(s.plan, s.invoked + 1)
              IN  IF out \in RequestExceptions
                  THEN [s EXCEPT !.invoked = @ + 1, !.attempt = @ + 1]
                  ELSE [s EXCEPT !.invoked = @ + 1, !.pc = "done", !.result = out]
    ELSE IF s.pc = "final"
    THEN [s EXCEPT !.invoked = @ + 1, !.pc = "done",
                   !.result = Attempt(s.plan, s.invoked + 1)]
    ELSE s

RECURSIVE RetryFrom(_)
RetryFrom(s) == IF s.pc = "done" THEN s ELSE RetryFrom(RetryStep(s))

\* _retry_request(method, **kwargs) from call to return or raise
retry_request(plan) == RetryFrom(RetryStart(plan))

\* the invocations of a run whose request reached the broker and was
\* carried out although the client got no answer
LostAnswers(s) == Cardinality({n \in 1..s.invoked : Attempt(s.plan, n) = "ReadTimeout"})

-----------------------------------------------------------------------------
(* The Gateway (broker back end) *)

\* Position ids and order ids are different number ranges.
PosIdBase == 10 * 10

\* faults: what the transport will do to the invocations of the next
\* state-changing request (DELETE of a position, POST of an order)
Gw(p, h) == [positions |-> p, history |-> h, faults |-> <<>>]

\* sent: how many times the request went out (once, unless retried)
LogEntry(req, pos, qty, open, ok) ==
    [req |-> req, pos |-> pos, qty |-> qty, open |-> open, ok |-> ok, sent |-> 1]

\* In a set of answers, pid stands for a non-ok answer ("s" other than "ok")
\* to the close of position pid, and HttpError(pid) for an error status, on
\* which _get_response_json raises HTTPError.
HttpError(pid) == 0 - pid

OpenQty(p, pid) == IF pid \in DOMAIN p THEN p[pid].qty ELSE 0

\* DELETE /trade/positions/{id} with body qty: quantity 0 closes the whole
\* position, a quantity of at least the open size closes it too, any other
\* quantity reduces it.  The fill of the closing order enters the ledger.
\* rej: the positions whose close the Gateway answers with a non-ok status.
GatewayClose(g, pid, qty, rej) ==
    IF pid \notin DOMAIN g.positions \/ pid \in rej
    THEN [g |-> g, ok |-> FALSE]
    ELSE LET p == g.positions[pid]
             closed == IF qty <= 0 \/ qty >= p.qty THEN p.qty ELSE qty
             fill == [id |-> Len(g.history) + 1, positionId |-> pid,
                      side |-> OppositeSide(p.side), qty |-> closed,
                      status |-> "Filled", instr |-> p.instr, validity |-> "IOC",
                      price |-> None]
             left == IF closed = p.qty
                     THEN [q \in DOMAIN g.positions \ {pid} |-> g.positions[q]]
                     ELSE [g.positions EXCEPT ![pid].qty = @ - closed]
         IN  [g |-> [g EXCEPT !.positions = left, !.history = Append(g.history, fill)],
              ok |-> TRUE]

\* the same close arriving k times
RECURSIVE GatewayCloses(_, _, _, _, _)
GatewayCloses(g, pid, qty, rej, k) ==
    IF k = 0 THEN g ELSE GatewayCloses(GatewayClose(g, pid, qty, rej).g, pid, qty, rej, k - 1)

\* POST .../orders: the Gateway refuses the request (no orderId in the
\* answer), answers with an error status, or accepts the order, which then
\* fills (market), is rejected, or stays pending (limit, stop).  A filled
\* order opens a position of its own.
GatewayOrder(g, body, answer) ==
    IF answer \in {"refused", "http_error"} THEN [g |-> g, orderId |-> 0]
    ELSE LET oid == Len(g.history) + 1
             pid == PosIdBase + oid
             st == IF body.type # "market" THEN "New" ELSE answer
             row == [id |-> oid, positionId |-> IF st = "Filled" THEN pid ELSE 0,
                     side |-> body.side, qty |-> body.qty, status |-> st,
                     instr |-> body.instr, validity |-> body.validity,
                     price |-> body.price]
             opened == [instr |-> body.instr, side |-> body.side, qty |-> body.qty,
                        stopLossId |-> IF body.stopLoss # None THEN oid ELSE 0,
                        takeProfitId |-> IF body.takeProfit # None THEN oid ELSE 0]
             newpos == IF st = "Filled"
                       THEN [q \in DOMAIN g.positions \cup {pid} |->
                               IF q = pid THEN opened ELSE g.positions[q]]
                       ELSE g.positions
         IN  [g |-> [g EXCEPT !.positions = newpos, !.history = Append(g.history, row)],
              orderId |-> oid]

\* the same order arriving k times
RECURSIVE GatewayOrders(_, _, _, _)
GatewayOrders(g, body, answer, k) ==
    IF k = 0 THEN g ELSE GatewayOrders(GatewayOrder(g, body, answer).g, body, answer, k - 1)

-----------------------------------------------------------------------------
(* The client *)

\* What a call hands back: the Gateway afterwards, the requests issued, the
\* client's cache, how the call ended ("return" with a value, or the name of
\* the exception raised, detail naming the rule that raised it), and for
\* create_order the netted total and the quantity of the submitted order.
ResultN(g, lg, c, outcome, value, detail, netted, submitted) ==
    [g |-> g, log |-> lg, cache |-> c, outcome |-> outcome, value |-> value,
     detail |-> detail, netted |-> netted, submitted |-> submitted]

Result(g, lg, c, outcome, value) == ResultN(g, lg, c, outcome, value, "", 0, None)

\* _get_column_names -> get_config: one cached GET of /trade/config
WithConfig(lg, c) ==
    IF "config" \in c THEN lg ELSE Append(lg, LogEntry("GET_CONFIG", 0, 0, 0, TRUE))

\* _request("delete" | "post", ...) of a state-changing request under the
\* transport's faults: _retry_request sends it until an invocation returns
\* or the attempts are used up.  Gives the run of the wrapper and the
\* Gateway with the faults used up.
Transmit(g) ==
    Let(retry_request(g.faults),
        LAMBDA run : [run |-> run, lost |-> LostAnswers(run),
                      g |-> [g EXCEPT !.faults = <<>>]])

\* _place_close_position_order: one DELETE request, returns (s == "ok");
\* what _request raises (an error status, a failed transport) passes through
PlaceClosePositionOrder(g, lg, c, position_id, quantity, rej) ==
    Let(Transmit(g), LAMBDA t :
    Let(GatewayCloses(t.g, position_id, quantity, rej, t.lost), LAMBDA lost :
        LET entry == [LogEntry("DELETE_POSITION", position_id, quantity,
                               OpenQty(g.positions, position_id), FALSE)
                         EXCEPT !.sent = t.run.invoked]
        IN  IF t.run.result # "ok"
            THEN Result(lost, Append(lg, entry), c, t.run.result, FALSE)
            ELSE IF HttpError(position_id) \in rej
            THEN Result(lost, Append(lg, entry), c, "HTTPError", FALSE)
            ELSE Let(GatewayClose(lost, position_id, quantity, rej),
                     LAMBDA r :
                        Result(r.g, Append(lg, [entry EXCEPT !.ok = r.ok]), c,
                               "return", r.ok))))

\* the rows of a ledger selection, as the set of their indexes
RowsOf(h, order_id) == {i \in 1..Len(h) : h[i].id = order_id}

\* the status filter left out
RowsOfAnyStatus(h, order_id) == RowsOf(h, order_id)

FilledRows(h, order_id) == {i \in RowsOf(h, order_id) : h[i].status = "Filled"}

SignedQty(row) == IF row.side = "sell" THEN 0 - row.qty ELSE row.qty

RECURSIVE SumRows(_, _)
SumRows(h, rows) ==
    IF rows = {} THEN 0
    ELSE LET i == CHOOSE j \in rows : TRUE
         IN  SignedQty(h[i]) + SumRows(h, rows \ {i})

\* position_sizes: per positionId the absolute value of the signed sum
PositionSize(h, rows, pid) == Abs(SumRows(h, {i \in rows : h[i].positionId = pid}))

\* the keys of position_sizes in insertion order (first row of each position)
RECURSIVE KeysInOrder(_, _, _)
KeysInOrder(h, rows, i) ==
    IF i > Len(h) THEN <<>>
    ELSE LET rest == KeysInOrder(h, rows, i + 1)
             first == i \in rows /\ \A j \in rows : h[j].positionId = h[i].positionId => j >= i
         IN  IF first THEN <<h[i].positionId>> \o rest ELSE rest

\* the loop over position_sizes when several positions were found: closes
\* each at its computed size, results ignored, until one raises
RECURSIVE CloseEach(_, _, _, _, _, _)
CloseEach(g, lg, c, keys, sizes, rej) ==
    IF keys = <<>> THEN Result(g, lg, c, "return", TRUE)
    ELSE Let(PlaceClosePositionOrder(g, lg, c, Head(keys), sizes[Head(keys)], rej),
             LAMBDA r : IF r.outcome # "return" THEN r
                        ELSE CloseEach(r.g, r.log, c, Tail(keys), sizes, rej))

\* the exception the several-positions branch ends with: ",".join is applied
\* to the int keys of position_sizes, which raises TypeError before the
\* TLAPIException is constructed
JoinPositionIds(keys) == "TypeError"

\* if order_id == 0 and position_id == 0
NeitherGiven(order_id, position_id) == order_id = 0 /\ position_id = 0

\* the permissive policy: an order id beside a position id is let through
BothGivenAllowed(order_id, position_id) == FALSE

\* if order_id != 0 and position_id != 0
BothGiven(order_id, position_id) == order_id # 0 /\ position_id # 0

close_position(g, c, order_id, position_id, close_quantity, rej) ==
    IF NeitherGiven(order_id, position_id) THEN Result(g, <<>>, c, "ValueError", FALSE)
    ELSE IF BothGiven(order_id, position_id) THEN Result(g, <<>>, c, "ValueError", FALSE)
    ELSE IF position_id # 0
    THEN PlaceClosePositionOrder(g, <<>>, c, position_id, close_quantity, rej)
    ELSE
      LET lg0 == WithConfig(<<LogEntry("GET_ORDERS_HISTORY", 0, 0, 0, TRUE)>>, c)
          c1 == c \cup {"config"}
          h == g.history
          rows == FilledRows(h, order_id)
          keys == KeysInOrder(h, rows, 1)
          sizes == [pid \in {h[i].positionId : i \in rows} |-> PositionSize(h, rows, pid)]
      IN  IF rows = {} THEN Result(g, lg0, c1, "return", FALSE)
          ELSE IF Len(keys) > 1
          THEN Let(CloseEach(g, lg0, c1, keys, sizes, rej),
                   LAMBDA r : IF r.outcome # "return" THEN r
                              ELSE Result(r.g, r.log, c1, JoinPositionIds(keys), FALSE))
          ELSE LET pid == keys[1]
                   rounded == Round(sizes[pid])
                   quantity_to_close ==
                       IF close_quantity # 0 THEN Min(rounded, close_quantity) ELSE rounded
               IN  IF quantity_to_close < MIN_LOT_SIZE
                   THEN Result(g, lg0, c1, "return", FALSE)
                   ELSE PlaceClosePositionOrder(g, lg0, c1, pid, quantity_to_close, rej)

-----------------------------------------------------------------------------
(* Position netting *)

\* all_positions.loc[(tradableInstrumentId == instrument_id) & (side == opposite_side)]
OppositePositions(p, instrument_id, new_position_side) ==
    {pid \in DOMAIN p : p[pid].instr = instrument_id
                        /\ p[pid].side = OppositeSide(new_position_side)}

\* largest first
BeforeDescending(p, a, b) == p[a].qty > p[b].qty \/ (p[a].qty = p[b].qty /\ a < b)

\* sort_values(by="qty"): ascending; for the few rows of an account the sort
\* is an insertion sort, so equal quantities keep their row (id) order
Before(p, a, b) == p[a].qty < p[b].qty \/ (p[a].qty = p[b].qty /\ a < b)

RECURSIVE SortByQty(_, _)
SortByQty(p, ids) ==
    IF ids = {} THEN <<>>
    ELSE LET first == CHOOSE a \in ids : \A b \in ids \ {a} : Before(p, a, b)
         IN  <<first>> \o SortByQty(p, ids \ {first})

\* only the stop-loss looked at
UnprotectedByStopLossOnly(pos) == pos.stopLossId = 0

\* not position["stopLossId"] and not position["takeProfitId"]
Unprotected(pos) == pos.stopLossId = 0 /\ pos.takeProfitId = 0

\* the whole position whatever is still to be netted
QuantityToCloseWhole(qty, quantity, total_netted) == qty

\* min(position["qty"], float(quantity) - total_netted)
QuantityToClose(qty, quantity, total_netted) == Min(qty, quantity - total_netted)

\* abs(total_netted - float(quantity)) < self._EPS
NettingComplete(total_netted, quantity) == Abs(total_netted - quantity) < EPS

\* the for loop of _perform_order_netting over the sorted snapshot
RECURSIVE NettingLoop(_, _, _, _, _, _, _, _)
NettingLoop(g, lg, c, snapshot, order, quantity, total_netted, rej) ==
    IF order = <<>> THEN ResultN(g, lg, c, "return", TRUE, "", total_netted, None)
    ELSE IF Unprotected(snapshot[Head(order)])
    THEN Let(QuantityToClose(snapshot[Head(order)].qty, quantity, total_netted),
             LAMBDA quantity_to_close :
               Let(close_position(g, c, 0, Head(order), quantity_to_close, rej),
                   LAMBDA r :
                     IF r.outcome # "return"
                     THEN ResultN(r.g, lg \o r.log, c, r.outcome, FALSE, "",
                                  total_netted, None)
                     ELSE IF NettingComplete(total_netted + quantity_to_close, quantity)
                     THEN ResultN(r.g, lg \o r.log, c, "return", TRUE, "",
                                  total_netted + quantity_to_close, None)
                     ELSE NettingLoop(r.g, lg \o r.log, c, snapshot, Tail(order), quantity,
                                      total_netted + quantity_to_close, rej)))
    ELSE NettingLoop(g, lg, c, snapshot, Tail(order), quantity, total_netted, rej)

perform_order_netting(g, lg, c, instrument_id, new_position_side, quantity, rej) ==
    LET lg1 == WithConfig(Append(lg, LogEntry("GET_POSITIONS", 0, 0, 0, TRUE)), c)
        c1 == c \cup {"config"}
        opposite_positions == OppositePositions(g.positions, instrument_id, new_position_side)
        order == SortByQty(g.positions, opposite_positions)
    IN  NettingLoop(g, lg1, c1, g.positions, order, quantity, 0, rej)

-----------------------------------------------------------------------------
(* Order creation *)

Truthy(x) == x # None /\ x # 0

\* only the market rule kept
ValidityErrorMarketOnly(type_, validity) ==
    IF type_ = "market" /\ validity # NoneStr /\ validity # "IOC"
    THEN "market_validity"
    ELSE ""

\* if type_ == "market": ... elif not validity: ... elif validity != "GTC": ...
ValidityError(type_, validity) ==
    IF type_ = "market"
    THEN IF validity # NoneStr /\ validity # "IOC" THEN "market_validity" ELSE ""
    ELSE IF validity = NoneStr THEN "validity_missing"
    ELSE IF validity # "GTC" THEN "validity_not_gtc"
    ELSE ""

\* the take-profit rule tried before the stop-loss rule
ValidationErrorReordered(o) ==
    IF ValidityError(o.type, o.validity) # "" THEN ValidityError(o.type, o.validity)
    ELSE IF Truthy(o.take_profit) /\ o.take_profit_type = NoneStr THEN "take_profit_type"
    ELSE IF Truthy(o.stop_loss) /\ o.stop_loss_type = NoneStr THEN "stop_loss_type"
    ELSE IF o.type = "stop" /\ o.stop_price = None THEN "stop_price"
    ELSE IF ~o.ignore_len_check /\ o.strategy_len > MAX_STRATEGY_ID_LEN
    THEN "strategy_id"
    ELSE ""

\* the validation rules of create_order in source order; "" when none fails
ValidationError(o) ==
    IF ValidityError(o.type, o.validity) # "" THEN ValidityError(o.type, o.validity)
    ELSE IF Truthy(o.stop_loss) /\ o.stop_loss_type = NoneStr THEN "stop_loss_type"
    ELSE IF Truthy(o.take_profit) /\ o.take_profit_type = NoneStr THEN "take_profit_type"
    ELSE IF o.type = "stop" /\ o.stop_price = None THEN "stop_price"
    ELSE IF ~o.ignore_len_check /\ o.strategy_len > MAX_STRATEGY_ID_LEN
    THEN "strategy_id"
    ELSE ""

\* request_body as first built
RequestBody(o) ==
    [price |-> IF o.type = "market" /\ Truthy(o.price) THEN None ELSE o.price,
     qty |-> o.quantity, side |-> o.side, instr |-> o.instrument_id,
     validity |-> IF o.type = "market" THEN "IOC" ELSE o.validity,
     type |-> o.type, takeProfit |-> o.take_profit, stopLoss |-> o.stop_loss,
     stopPrice |-> o.stop_price]

\* get_trade_route_id -> _get_route_ids -> get_all_instruments (cached GET)
WithInstruments(lg, c) ==
    IF "instruments" \in c THEN lg
    ELSE Append(lg, LogEntry("GET_INSTRUMENTS", 0, 0, 0, TRUE))

\* the netted part forgotten
RemainingQtyWhole(quantity, total_netted) == quantity

\* request_body["qty"] after netting: float(qty) - total_netted
RemainingQty(quantity, total_netted) == quantity - total_netted

\* netting attempted whatever the order type
NettingSupportedAlways(type_) == TRUE

\* if type_ == "market" (inside if position_netting)
NettingSupported(type_) == type_ = "market"

\* an exception of the netting swallowed
NettingRaisedIgnored(outcome) == FALSE

\* _perform_order_netting is called outside the try block: what it raises
\* leaves create_order at once
NettingRaised(outcome) == outcome # "return"

\* only a remainder of nothing stops the order
NotPositive(qty) == qty <= 0

\* if float(request_body["qty"]) < self._MIN_LOT_SIZE
BelowMinLot(qty) == qty < MIN_LOT_SIZE

\* except (HTTPError, ValueError) -> TLAPIException (an error status, an
\* empty or undecodable response); except KeyError -> TLAPIOrderException
\* (an answer without d.orderId)
PostError(answer) ==
    IF answer = "http_error" THEN "TLAPIException" ELSE "TLAPIOrderException"

\* the try block: POST the order, read d.orderId.  A RequestException that
\* outlasts the retries is none of the exceptions caught there.
PlaceOrder(g, lg, c, body, netted, answer) ==
    Let(Transmit(g), LAMBDA t :
    Let(GatewayOrders(t.g, body, answer, t.lost), LAMBDA lost :
        LET entry == [LogEntry("POST_ORDER", 0, body.qty, 0, FALSE)
                         EXCEPT !.sent = t.run.invoked]
        IN  IF t.run.result # "ok"
            THEN ResultN(lost, Append(lg, entry), c, t.run.result, 0, "", netted, body.qty)
            ELSE Let(GatewayOrder(lost, body, answer),
                     LAMBDA r :
                        ResultN(r.g, Append(lg, [entry EXCEPT !.ok = r.orderId # 0]), c,
                                IF r.orderId = 0 THEN PostError(answer) ELSE "return",
                                r.orderId, "", netted, body.qty))))

create_order(g, c, o, answer, rej) ==
    IF ValidationError(o) # ""
    THEN ResultN(g, <<>>, c, "ValueError", 0, ValidationError(o), 0, None)
    ELSE
      LET body == RequestBody(o)
          lg0 == WithInstruments(<<>>, c)
          c0 == c \cup {"instruments"}
      IN  IF o.position_netting
          THEN IF NettingSupported(o.type)
               THEN Let(perform_order_netting(g, lg0, c0, o.instrument_id, o.side,
                                              o.quantity, rej),
                        LAMBDA n :
                          IF NettingRaised(n.outcome)
                          THEN ResultN(n.g, n.log, n.cache, n.outcome, 0, "", n.netted, None)
                          ELSE IF BelowMinLot(RemainingQty(body.qty, n.netted))
                          THEN ResultN(n.g, n.log, n.cache, "return", 0, "", n.netted, None)
                          ELSE PlaceOrder(n.g, n.log, n.cache,
                                          [body EXCEPT !.qty = RemainingQty(body.qty, n.netted)],
                                          n.netted, answer))
               ELSE ResultN(g, lg0, c0, "ValueError", 0, "netting_not_market", 0, None)
          ELSE PlaceOrder(g, lg0, c0, body, 0, answer)

-----------------------------------------------------------------------------
(* Inputs *)

Intent(side, quantity, netting) ==
    [instrument_id |-> 1, quantity |-> quantity, side |-> side, price |-> None,
     type |-> "market", validity |-> NoneStr, position_netting |-> netting,
     take_profit |-> None, take_profit_type |-> NoneStr,
     stop_loss |-> None, stop_loss_type |-> NoneStr, stop_price |-> None,
     strategy_len |-> 0, ignore_len_check |-> FALSE]

\* 0, 0.01, 0.010005, 0.015, 0.02, 0.03
OrderQtys == {0, 100000, 100050, 150000, 200000, 300000}

\* 0 (close all), 0.005, 0.01
CloseQtys == {0, 50000, 100000}

MarketIntents ==
    {Intent(s, q, n) : s \in {"buy", "sell"}, q \in OrderQtys, n \in BOOLEAN}

One == Intent("buy", MIN_LOT_SIZE, FALSE)

\* requests that exercise each validation rule, and the valid non-market ones
OtherIntents ==
    { [One EXCEPT !.validity = "IOC"],
      [One EXCEPT !.validity = "GTC"],
      [One EXCEPT !.price = 5],
      [One EXCEPT !.type = "limit", !.price = 5],
      [One EXCEPT !.type = "limit", !.price = 5, !.validity = "IOC"],
      [One EXCEPT !.type = "limit", !.price = 5, !.validity = "GTC"],
      [One EXCEPT !.type = "limit", !.price = 5, !.validity = "GTC",
                  !.position_netting = TRUE],
      [One EXCEPT !.type = "stop", !.price = 5, !.validity = "GTC"],
      [One EXCEPT !.type = "stop", !.stop_price = 5],
      [One EXCEPT !.type = "stop", !.stop_price = 5, !.validity = "IOC"],
      [One EXCEPT !.type = "stop", !.stop_price = 5, !.validity = "GTC",
                  !.position_netting = TRUE],
      [One EXCEPT !.type = "limit", !.price = 5, !.validity = "GTC", !.side = "sell",
                  !.quantity = 300000, !.position_netting = TRUE],
      [One EXCEPT !.type = "stop", !.stop_price = 5, !.validity = "GTC"],
      [One EXCEPT !.stop_loss = 5],
      [One EXCEPT !.stop_loss = 5, !.take_profit = 5],
      [One EXCEPT !.type = "limit", !.price = 5, !.stop_loss = 5],
      [One EXCEPT !.type = "stop", !.validity = "GTC", !.take_profit = 5],
      [One EXCEPT !.type = "stop", !.validity = "GTC",
                  !.strategy_len = MAX_STRATEGY_ID_LEN + 1],
      [One EXCEPT !.price = 5, !.validity = "GTC"],
      [One EXCEPT !.type = "stop", !.validity = "IOC", !.stop_loss = 5,
                  !.take_profit = 5, !.strategy_len = MAX_STRATEGY_ID_LEN + 1],
      [One EXCEPT !.stop_loss = 5, !.stop_loss_type = "absolute"],
      [One EXCEPT !.take_profit = 5],
      [One EXCEPT !.take_profit = 5, !.take_profit_type = "absolute"],
      [One EXCEPT !.strategy_len = MAX_STRATEGY_ID_LEN + 1],
      [One EXCEPT !.strategy_len = MAX_STRATEGY_ID_LEN + 1, !.ignore_len_check = TRUE],
      [One EXCEPT !.strategy_len = MAX_STRATEGY_ID_LEN],
      [One EXCEPT !.quantity = 50000],
      [One EXCEPT !.quantity = 50000, !.type = "limit", !.price = 5, !.validity = "GTC"],
      [One EXCEPT !.quantity = 200004],
      [One EXCEPT !.quantity = 0 - 100000] }

OrderIntents == MarketIntents \cup OtherIntents

\* the accounts a client may find: each open position was opened by one
\* filled market order of an earlier session
Pos(instr, side, qty, sl, tp) ==
    [instr |-> instr, side |-> side, qty |-> qty, stopLossId |-> sl, takeProfitId |-> tp]

PositionMenu ==
    << Pos(1, "sell", 100000, 0, 0), Pos(1, "sell", 300000, 0, 0),
       Pos(1, "sell", 500000, 0, 0), Pos(1, "buy", 200004, 0, 0),
       Pos(1, "buy", 100000, 0, 0),  Pos(1, "buy", 300000, 0, 0),
       Pos(1, "sell", 100000, 7, 0), Pos(1, "sell", 100000, 0, 8),
       Pos(2, "sell", 100000, 0, 0) >>

InitialAccounts ==
    UNION { {f \in [1..n -> 1..Len(PositionMenu)] : \A i \in 1..n, j \in 1..n : i < j => f[i] <= f[j]}
            : n \in 0..MaxInitPositions }

Budget(n) == IF n <= 1 THEN MaxCalls ELSE MaxCalls - 1

NoCall == [op |-> "none", order_id |-> 0, position_id |-> 0, close_quantity |-> 0,
           intent |-> One, rej |-> {}, answer |-> "Filled", plan |-> <<>>,
           outcome |-> "return", value |-> 0, detail |-> "", netted |-> 0,
           submitted |-> None]

Init ==
    \E f \in InitialAccounts :
        LET n == Len(f)
        IN  /\ positions = [pid \in {PosIdBase + k : k \in 1..n} |-> PositionMenu[f[pid - PosIdBase]]]
            /\ history = [k \in 1..n |->
                             [id |-> k, positionId |-> PosIdBase + k,
                              side |-> PositionMenu[f[k]].side, qty |-> PositionMenu[f[k]].qty,
                              status |-> "Filled", instr |-> PositionMenu[f[k]].instr,
                              validity |-> "IOC", price |-> None]]
            /\ cache = {}
            /\ call = NoCall
            /\ log = <<>>
            /\ pre = positions
            /\ callsLeft = Budget(n)
            /\ scen = 0
            /\ RetryIdle /\ TokenIdle /\ SessionIdle /\ HistoryIdle

-----------------------------------------------------------------------------
(* Actions: one per public call *)

Deleted(lg) == {lg[i].pos : i \in {j \in 1..Len(lg) : lg[j].req = "DELETE_POSITION"}}

Posted(lg) == \E i \in 1..Len(lg) : lg[i].req = "POST_ORDER"

RejChoices ==
    {{}} \cup {{pid} : pid \in DOMAIN positions}
         \cup {{HttpError(pid)} : pid \in DOMAIN positions}

\* the positions a set of answers is about
Answered(rej) == {Abs(x) : x \in rej}

\* What the transport does to the first state-changing request of a call:
\* nothing, one answer lost after the request arrived, or no connection for
\* as long as the client tries.
FaultPlans ==
    {<<>>, <<"ReadTimeout">>, [n \in 1..(MAX_RETRIES + 1) |-> "ConnectionError"]}

Sent(lg) == \E i \in 1..Len(lg) : lg[i].req \in {"DELETE_POSITION", "POST_ORDER"}

\* Every call uses up one unit of the exploration budget; the steps of the
\* end-to-end scenario are followed to the end whatever the budget.
Finish(r, c, guided) ==
    /\ callsLeft > 0 \/ guided
    /\ positions' = r.g.positions
    /\ history' = r.g.history
    /\ cache' = r.cache
    /\ log' = r.log
    /\ pre' = positions
    /\ callsLeft' = IF callsLeft > 0 THEN callsLeft - 1 ELSE 0
    /\ call' = [c EXCEPT !.outcome = r.outcome, !.value = r.value,
                         !.detail = r.detail, !.netted = r.netted,
                         !.submitted = r.submitted]
    /\ UNCHANGED <<retryVars, tokenVars, sessionVars, historyVars>>

\* by order id, by position id, with neither, or with an order id and the id
\* of the position that order opened
CloseTargets ==
    {t \in ({0} \cup {history[i].id : i \in 1..Len(history)} \cup {Len(history) + 1})
            \X ({0, PosIdBase} \cup DOMAIN positions) :
        t[1] = 0 \/ t[2] = 0 \/ t[2] = PosIdBase + t[1]}

ClosePosition ==
    /\ callsLeft > 0
    /\ \E t \in CloseTargets, close_quantity \in CloseQtys, rej \in RejChoices,
          plan \in FaultPlans :
      /\ t[2] # 0 => Answered(rej) \subseteq {t[2]}
      /\ plan # <<>> => rej = {}
      /\ \E r \in {close_position([Gw(positions, history) EXCEPT !.faults = plan],
                               cache, t[1], t[2], close_quantity, rej)} :
        /\ Answered(rej) \subseteq Deleted(r.log)
        /\ plan # <<>> => Sent(r.log)
        /\ Finish(r, [NoCall EXCEPT !.op = "close_position", !.order_id = t[1],
                                    !.position_id = t[2],
                                    !.close_quantity = close_quantity, !.rej = rej,
                                    !.plan = plan],
                  FALSE)
        /\ scen' = 0

\* create_order, answered by the Gateway: the order fills, is rejected, or
\* the request is refused; an order of less than a lot never fills.
\* The end-to-end netting scenario, from an account with no order so far:
\* buy 0.01, sell 0.03, netting sell 0.01, netting buy 0.02, each answered
\* by a Gateway that fills the order and applies the closes.
ScenarioStep(o, exact) ==
    IF history = <<>> /\ o = Intent("buy", 100000, FALSE) /\ exact THEN 1
    ELSE IF scen = 1 /\ o = Intent("sell", 300000, FALSE) /\ exact THEN 2
    ELSE IF scen = 2 /\ o = Intent("sell", 100000, TRUE) /\ exact THEN 3
    ELSE IF scen = 3 /\ o = Intent("buy", 200000, TRUE) /\ exact THEN 4
    ELSE 0

CreateOrder ==
    /\ callsLeft > 0 \/ scen > 0
    /\ \E o \in OrderIntents, answer \in {"Filled", "Rejected", "refused", "http_error"},
          rej \in RejChoices, plan \in FaultPlans :
      /\ rej # {} => o.position_netting
      /\ answer # "Filled" => ValidationError(o) = ""
      /\ plan # <<>> => rej = {} /\ answer = "Filled" /\ ValidationError(o) = ""
      /\ \E r \in {create_order([Gw(positions, history) EXCEPT !.faults = plan],
                             cache, o, answer, rej)} :
        /\ Answered(rej) \subseteq Deleted(r.log)
        /\ ~Posted(r.log) => answer = "Filled"
        /\ (Posted(r.log) /\ r.submitted < MIN_LOT_SIZE) => answer # "Filled"
        /\ plan # <<>> => Sent(r.log)
        /\ Finish(r, [NoCall EXCEPT !.op = "create_order", !.intent = o,
                                    !.rej = rej, !.answer = answer, !.plan = plan],
                  scen > 0 /\ ScenarioStep(o, rej = {} /\ answer = "Filled" /\ plan = <<>>)
                                 = scen + 1)
        /\ scen' = ScenarioStep(o, rej = {} /\ answer = "Filled" /\ plan = <<>>)

\* The ledger anomaly close_position guards against, found by a client on
\* its first look: the opening fills of several positions carry the order id
\* of the oldest row.
GatewayDuplicateOrderId ==
    \E Q \in SUBSET (DOMAIN positions) :
        /\ call.op = "none"
        /\ Q # {}
        /\ history # <<>>
        /\ history[1].positionId \notin Q
        /\ history' = [i \in 1..Len(history) |->
                          IF history[i].positionId \in Q
                          THEN [history[i] EXCEPT !.id = history[1].id]
                          ELSE history[i]]
        /\ call' = [NoCall EXCEPT !.op = "gateway"]
        /\ UNCHANGED <<positions, cache, log, pre, callsLeft, scen>>
        /\ UNCHANGED <<retryVars, tokenVars, sessionVars, historyVars>>

Next == ClosePosition \/ CreateOrder \/ GatewayDuplicateOrderId

Spec == Init /\ [][Next]_vars

-----------------------------------------------------------------------------
(* What the claims read off a state *)

ByOrderId == call.op = "close_position" /\ call.order_id # 0 /\ call.position_id = 0

\* the DELETE requests of the last call, in the order issued
Deletes == SelectSeq(log, LAMBDA e : e.req = "DELETE_POSITION")

\* the positions the ledger's filled rows give for the order id of the call
Groups == {history[i].positionId : i \in FilledRows(history, call.order_id)}

GroupSize(pid) == PositionSize(history, FilledRows(history, call.order_id), pid)

\* a netting call whose netting loop ran and returned: it was left neither
\* by a validation error nor by what a close raised
Netting ==
    /\ call.op = "create_order"
    /\ call.intent.position_netting
    /\ call.intent.type = "market"
    /\ call.outcome \notin {"ValueError", "HTTPError"}
    /\ call.outcome \in RequestExceptions => Posted(log)

\* the positions netting may close: opposite side, same instrument, no
\* stop-loss and no take-profit attached
Eligible ==
    {p \in DOMAIN pre : /\ pre[p].instr = call.intent.instrument_id
                        /\ pre[p].side # call.intent.side
                        /\ pre[p].stopLossId = 0
                        /\ pre[p].takeProfitId = 0}

RECURSIVE SumQty(_, _)
SumQty(f, S) ==
    IF S = {} THEN 0
    ELSE LET p == CHOOSE x \in S : TRUE IN f[p].qty + SumQty(f, S \ {p})

\* the quantities of the first n DELETE requests, summed
ClosedUpTo(n) == SeqSum([i \in 1..n |-> Deletes[i].qty])

-----------------------------------------------------------------------------
(* C1: close_position by order id whose filled rows fall on two or more     *)
(* positions issues a close for every one of them at its computed size and  *)
(* then raises TLAPIException.                                              *)
C1_SeveralPositionsRaiseTLAPIException ==
    (ByOrderId /\ Cardinality(Groups) >= 2 /\ call.rej = {}) =>
        /\ \A p \in Groups :
             \E i \in 1..Len(Deletes) : Deletes[i].pos = p /\ Deletes[i].qty = GroupSize(p)
        /\ call.outcome = "TLAPIException"

(* C2: the netting loop never issues a close for a position with a stop-loss *)
(* or take-profit attached, nor for one on the side of the new order or on   *)
(* another instrument.                                                      *)
C2_NettingClosesOnlyEligible ==
    call.op = "create_order" => Deleted(log) \subseteq Eligible

C2_Witness ==
    /\ Netting
    /\ Len(Deletes) >= 1
    /\ \E p \in DOMAIN pre : /\ pre[p].takeProfitId # 0
                             /\ pre[p].side # call.intent.side
                             /\ pre[p].instr = call.intent.instrument_id
                             /\ call.netted < call.intent.quantity

(* C3: when the netting returns, totalNetted <= requested quantity and       *)
(* totalNetted is the sum of the quantities of the closes it issued.         *)
C3_NettedBounded ==
    Netting => /\ call.netted <= call.intent.quantity
               /\ call.netted = ClosedUpTo(Len(Deletes))

C3_Witness ==
    /\ Netting
    /\ Len(Deletes) >= 2
    /\ call.netted = call.intent.quantity
    /\ \E p \in Eligible : p \notin Deleted(log)

(* C4: closes are issued in ascending order of position quantity, each for   *)
(* min(position qty, requested - netted so far); every close but the last is *)
(* a full one; no close follows once the netted total is within EPS of the   *)
(* request, and a position is left out only after that point.               *)
C4_GreedyAscending ==
    Netting =>
        /\ \A i \in 1..Len(Deletes) :
             /\ Deletes[i].qty =
                    IF Deletes[i].open <= call.intent.quantity - ClosedUpTo(i - 1)
                    THEN Deletes[i].open
                    ELSE call.intent.quantity - ClosedUpTo(i - 1)
             /\ i < Len(Deletes) =>
                    /\ Deletes[i].qty = Deletes[i].open
                    /\ Deletes[i].open <= Deletes[i + 1].open
                    /\ Abs(ClosedUpTo(i) - call.intent.quantity) >= EPS
        /\ \A p \in Eligible \ Deleted(log) :
             /\ Abs(call.netted - call.intent.quantity) < EPS
             /\ \A i \in 1..Len(Deletes) : Deletes[i].open <= pre[p].qty

\* opposite positions 0.03, 0.01, 0.05 and a request of 0.02
C4_Witness ==
    /\ Netting
    /\ call.intent.quantity = 200000
    /\ {pre[p].qty : p \in Eligible} = {100000, 300000, 500000}
    /\ Len(Deletes) = 2
    /\ Deletes[1].open = 100000 /\ Deletes[1].qty = 100000
    /\ Deletes[2].open = 300000 /\ Deletes[2].qty = 100000

(* C5: close_position with neither id, or with both, raises ValueError and   *)
(* makes no Gateway request.                                                *)
C5_IdsValidated ==
    (call.op = "close_position"
        /\ (call.order_id = 0) = (call.position_id = 0)) =>
        /\ call.outcome = "ValueError"
        /\ log = <<>>
        /\ positions = pre

C5_Witness ==
    /\ call.op = "close_position"
    /\ call.order_id # 0
    /\ call.position_id \in DOMAIN positions
    /\ call.outcome = "ValueError"

(* C6: against a Gateway that fills market orders and applies closes        *)
(* exactly, an empty account after buy 0.01 and sell 0.03 holds 2 positions; *)
(* a netting sell 0.01 then leaves 1 position, the sell still at 0.03 (the   *)
(* buy is closed, nothing is left to order); a following netting buy 0.02   *)
(* leaves 1 position, the sell reduced to 0.01.                             *)
OnlyPosition(side, qty) ==
    \E p \in DOMAIN positions :
        DOMAIN positions = {p} /\ positions[p].side = side /\ positions[p].qty = qty

C6_Scenario ==
    /\ scen = 2 => Cardinality(DOMAIN positions) = 2
    /\ scen = 3 => OnlyPosition("sell", 300000)
    /\ scen = 4 => OnlyPosition("sell", 100000)

C6_Witness == scen = 4 /\ call.netted = 200000 /\ Len(Deletes) = 1

\* as stated: the sell reduced to 0.02 by the netting sell, no position at the end
C6_AsStated ==
    /\ scen = 2 => Cardinality(DOMAIN positions) = 2
    /\ scen = 3 => OnlyPosition("sell", 200000)
    /\ scen = 4 => DOMAIN positions = {}

(* C7: against a Gateway that fills market orders and applies closes        *)
(* exactly, a netting market order of quantity q reduces the unprotected    *)
(* opposite exposure on the instrument by min(q, that exposure) (to within  *)
(* EPS), leaves no position of quantity zero, and opens a new position on   *)
(* its own side only for the remainder, the remainder being at least the    *)
(* minimum lot.                                                             *)
C7_NettingEffect ==
    (Netting /\ call.rej = {} /\ call.answer = "Filled") =>
        LET total == SumQty(pre, Eligible)
            reduced == total - SumQty(positions, Eligible \cap DOMAIN positions)
            opened == DOMAIN positions \ DOMAIN pre
        IN  /\ Abs(reduced - Min(call.intent.quantity, total)) < EPS
            /\ \A p \in DOMAIN positions : positions[p].qty > 0
            /\ \A p \in opened :
                 /\ positions[p].side = call.intent.side
                 /\ positions[p].qty = call.intent.quantity - reduced
                 /\ positions[p].qty >= MIN_LOT_SIZE

(* C8: when close_position is addressed by order id and the order resolves   *)
(* to one position that is still open (for a whole number of minimum lots),  *)
(* the quantity submitted for closing never exceeds what is open on that     *)
(* position.                                                                *)
C8_NeverMoreThanOpen ==
    (ByOrderId /\ Cardinality(Groups) = 1) =>
        \A i \in 1..Len(Deletes) :
            (Deletes[i].open > 0 /\ Deletes[i].open % MIN_LOT_SIZE = 0) =>
                Deletes[i].qty <= Deletes[i].open

(* C9: no close with a non-zero quantity below the minimum lot size is ever  *)
(* submitted to the Gateway, by close_position or by the netting loop.       *)
C9_NoDustClose ==
    \A i \in 1..Len(Deletes) :
        Deletes[i].qty = 0 \/ Deletes[i].qty >= MIN_LOT_SIZE

(* C10: close_position by order id that resolves to exactly one position     *)
(* looks the order up in the all-time history and, when round(size, 6)       *)
(* (clamped to close_quantity if one is given) is at least the minimum lot,  *)
(* issues exactly one close, for that position and that quantity, and        *)
(* returns the Gateway's success flag (the HTTPError of an error status, or  *)
(* the transport's exception once the retries are used up, propagates);      *)
(* when it is below the minimum lot it issues no close and returns false.    *)
\* x is size rounded to SIZE_PRECISION decimals
IsRounded(x, size) ==
    /\ x % RoundStep = 0
    /\ 2 * Abs(x - size) <= RoundStep
    /\ 2 * Abs(x - size) = RoundStep => (x \div RoundStep) % 2 = 0

\* the quantity the claim gives for a position of that size
ExpectedToClose(size) ==
    LET r == CHOOSE x \in (size - RoundStep)..(size + RoundStep) : IsRounded(x, size)
    IN  IF call.close_quantity = 0 \/ r <= call.close_quantity
        THEN r ELSE call.close_quantity

OneCloseIssued(p) ==
    /\ Len(Deletes) = 1
    /\ Deletes[1].pos = p
    /\ Deletes[1].qty = ExpectedToClose(GroupSize(p))
    /\ IF Len(call.plan) > MAX_RETRIES
       THEN call.outcome = call.plan[MAX_RETRIES + 1] /\ Deletes[1].sent = MAX_RETRIES + 1
       ELSE IF HttpError(p) \in call.rej
       THEN call.outcome = "HTTPError"
       ELSE call.outcome = "return" /\ call.value = Deletes[1].ok

HistoryLookup ==
    /\ log # <<>>
    /\ log[1].req = "GET_ORDERS_HISTORY"
    /\ \A i \in 1..Len(log) : log[i].req # "GET_ORDERS"

C10_OnePosition ==
    (ByOrderId /\ Cardinality(Groups) = 1) =>
        /\ HistoryLookup
        /\ \A p \in Groups :
             IF ExpectedToClose(GroupSize(p)) < MIN_LOT_SIZE
             THEN Len(Deletes) = 0 /\ call.outcome = "return" /\ call.value = FALSE
             ELSE OneCloseIssued(p)

\* a size that rounding changes, closed in full
C10_Witness ==
    /\ ByOrderId
    /\ Cardinality(Groups) = 1
    /\ call.close_quantity = 0
    /\ Len(Deletes) = 1
    /\ Deletes[1].qty # GroupSize(Deletes[1].pos)
    /\ call.value = TRUE

\* as stated: one close whatever the quantity comes to
C10_AsStated ==
    (ByOrderId /\ Cardinality(Groups) = 1) =>
        /\ HistoryLookup
        /\ \A p \in Groups : OneCloseIssued(p)

(* C11: close_position by order id, when the ledger holds no row with that   *)
(* id in status Filled (no row at all, or rows of other statuses only),      *)
(* returns false and issues no close.                                       *)
NoFilledRow ==
    \A i \in 1..Len(history) : history[i].id = call.order_id => history[i].status # "Filled"

C11_NoMatchingPosition ==
    (ByOrderId /\ NoFilledRow) =>
        /\ call.outcome = "return"
        /\ call.value = FALSE
        /\ Deletes = <<>>
        /\ positions = pre

\* the order id is in the ledger, on a rejected order
C11_Witness ==
    /\ ByOrderId
    /\ NoFilledRow
    /\ \E i \in 1..Len(history) :
         history[i].id = call.order_id /\ history[i].status = "Rejected"
    /\ call.value = FALSE

\* the order id is not in the ledger at all
C11_WitnessUnknownId ==
    /\ ByOrderId
    /\ \A i \in 1..Len(history) : history[i].id # call.order_id
    /\ call.value = FALSE

(* C12: in create_order with netting on a market order, an order that is     *)
(* submitted is submitted for the requested quantity minus the netted total; *)
(* when that remainder is below the minimum lot size no order request is     *)
(* sent and None is returned.                                               *)
Posts == SelectSeq(log, LAMBDA e : e.req = "POST_ORDER")

C12_RemainderSubmitted ==
    Netting =>
        /\ \A i \in 1..Len(Posts) : Posts[i].qty = call.intent.quantity - call.netted
        /\ call.intent.quantity - call.netted < MIN_LOT_SIZE =>
             /\ Posts = <<>>
             /\ call.outcome = "return"
             /\ call.value = 0

\* part of the request netted, the rest ordered
C12_Witness ==
    /\ Netting
    /\ call.netted >= MIN_LOT_SIZE
    /\ Len(Posts) = 1
    /\ Posts[1].qty = call.intent.quantity - call.netted
    /\ Posts[1].qty >= MIN_LOT_SIZE
    /\ call.value # 0

\* a remainder of half a lot: nothing ordered
C12_WitnessNoOrder ==
    /\ Netting
    /\ call.intent.quantity - call.netted > 0
    /\ call.intent.quantity - call.netted < MIN_LOT_SIZE
    /\ Posts = <<>>

(* C13: in create_order every close of the netting loop is issued before     *)
(* the new order is submitted, the order is the last request of the call,    *)
(* and when a close raises, the exception leaves create_order and no order   *)
(* is submitted.                                                            *)
C13_ClosesBeforeOrder ==
    call.op = "create_order" =>
        /\ \A i \in 1..Len(log), j \in 1..Len(log) :
             (log[i].req = "POST_ORDER" /\ log[j].req = "DELETE_POSITION") => j < i
        /\ Len(Posts) <= 1
        /\ Posts # <<>> => log[Len(log)].req = "POST_ORDER"
        /\ (\E p \in Deleted(log) : HttpError(p) \in call.rej) =>
             /\ call.outcome = "HTTPError"
             /\ Posts = <<>>

\* the second close of the loop raises
C13_Witness ==
    /\ call.op = "create_order"
    /\ Len(Deletes) = 2
    /\ HttpError(Deletes[2].pos) \in call.rej
    /\ Deletes[1].ok
    /\ call.outcome = "HTTPError"

\* two closes, then the order for the remainder
C13_WitnessOrdered ==
    /\ call.op = "create_order"
    /\ Len(Deletes) = 2
    /\ Len(Posts) = 1
    /\ call.outcome = "return"

(* C14: a close of the netting loop that the Gateway reports unsuccessful    *)
(* is not counted in the netted total, and the new order is not reduced by   *)
(* it.                                                                      *)
NettedSuccessfully ==
    SeqSum([i \in 1..Len(Deletes) |-> IF Deletes[i].ok THEN Deletes[i].qty ELSE 0])

C14_FailedCloseNotCounted ==
    (Netting /\ call.intent.quantity >= MIN_LOT_SIZE) =>
        /\ call.netted = NettedSuccessfully
        /\ \A i \in 1..Len(Posts) : Posts[i].qty = call.intent.quantity - NettedSuccessfully
        /\ call.intent.quantity - NettedSuccessfully >= MIN_LOT_SIZE => Posts # <<>>

(* C15: whenever create_order rejects its input with ValueError, the         *)
(* rejection of netting on a non-market order included, no Gateway request   *)
(* has been made during the call.                                           *)
C15_RejectionWithoutRequest ==
    (call.op = "create_order" /\ call.outcome = "ValueError") => log = <<>>

C16_WitnessLimit ==
    /\ call.op = "create_order"
    /\ call.intent.position_netting
    /\ call.intent.type = "limit"
    /\ call.intent.side = "sell"
    /\ call.detail = "netting_not_market"
    /\ Eligible # {}

(* C17: create_order passes the validity rules exactly when the order is a   *)
(* market order with no validity or IOC (it is then sent with IOC) or a      *)
(* limit or stop order with GTC; every other combination raises ValueError   *)
(* and no order is submitted.                                               *)
ValidityRules == {"market_validity", "validity_missing", "validity_not_gtc"}

ValidityConsistent ==
    \/ call.intent.type = "market" /\ call.intent.validity \in {NoneStr, "IOC"}
    \/ call.intent.type \in {"limit", "stop"} /\ call.intent.validity = "GTC"

C17_TypeValidity ==
    call.op = "create_order" =>
        /\ ValidityConsistent => call.detail \notin ValidityRules
        /\ ~ValidityConsistent =>
             /\ call.outcome = "ValueError"
             /\ call.detail \in ValidityRules
             /\ log = <<>>
             /\ positions = pre
        /\ (call.intent.type = "market" /\ call.outcome = "return" /\ call.value # 0) =>
             history[Len(history)].id = call.value
             /\ history[Len(history)].validity = "IOC"

\* a stop order sent with IOC is refused
C17_Witness ==
    /\ call.op = "create_order"
    /\ call.intent.type = "stop"
    /\ call.intent.validity = "IOC"
    /\ call.detail = "validity_not_gtc"

\* a market order without validity goes out with IOC
C17_WitnessMarket ==
    /\ call.op = "create_order"
    /\ call.intent.type = "market"
    /\ call.intent.validity = NoneStr
    /\ call.value # 0
    /\ history[Len(history)].validity = "IOC"

\* a limit order with GTC is accepted
C17_WitnessLimit ==
    /\ call.op = "create_order"
    /\ call.intent.type = "limit"
    /\ call.intent.validity = "GTC"
    /\ call.outcome = "return"
    /\ call.value # 0

(* C18: create_order applies its validation rules in the order validity,     *)
(* stop-loss value without type, take-profit value without type, stop order  *)
(* without stop price, strategy id longer than 32 characters (skipped with   *)
(* the bypass flag); the error raised is that of the earliest violated rule  *)
(* and nothing is requested; a request violating none raises none of them,   *)
(* is submitted when no netting is asked for, and a market order goes out    *)
(* without its price.                                                       *)
RuleOrder == <<"validity", "stop_loss_type", "take_profit_type", "stop_price", "strategy_id">>

Violates(k) ==
    LET o == call.intent
    IN  CASE k = 1 -> ~ValidityConsistent
          [] k = 2 -> o.stop_loss \notin {None, 0} /\ o.stop_loss_type = NoneStr
          [] k = 3 -> o.take_profit \notin {None, 0} /\ o.take_profit_type = NoneStr
          [] k = 4 -> o.type = "stop" /\ o.stop_price = None
          [] k = 5 -> ~o.ignore_len_check /\ o.strategy_len > 32

RuleRaised == IF call.detail \in ValidityRules THEN "validity" ELSE call.detail

Violated == {k \in 1..Len(RuleOrder) : Violates(k)}

C18_RulesInOrder ==
    call.op = "create_order" =>
        IF Violated # {}
        THEN /\ call.outcome = "ValueError"
             /\ \E k \in Violated : /\ \A j \in Violated : k <= j
                                    /\ RuleRaised = RuleOrder[k]
             /\ log = <<>>
             /\ positions = pre
        ELSE /\ \A k \in 1..Len(RuleOrder) : RuleRaised # RuleOrder[k]
             /\ ~call.intent.position_netting => Len(Posts) = 1
             /\ (call.intent.type = "market" /\ call.outcome = "return" /\ call.value # 0) =>
                  history[Len(history)].price = None

\* stop-loss and take-profit both without type: the stop-loss error
C18_Witness ==
    /\ call.op = "create_order"
    /\ Cardinality(Violated) >= 2
    /\ Violates(2) /\ Violates(3)
    /\ call.detail = "stop_loss_type"

\* every rule violated at once
C18_WitnessAll ==
    /\ call.op = "create_order"
    /\ Cardinality(Violated) = 5
    /\ call.detail = "validity_not_gtc"

\* the length check bypassed, the order submitted
C18_WitnessBypass ==
    /\ call.op = "create_order"
    /\ call.intent.strategy_len > 32
    /\ call.intent.ignore_len_check
    /\ Len(Posts) = 1

\* a market order given with a price
C18_WitnessPrice ==
    /\ call.op = "create_order"
    /\ call.intent.type = "market"
    /\ call.intent.price = 5
    /\ call.value # 0
    /\ history[Len(history)].price = None

(* C19: create_order whose quantity is below the minimum lot size does not   *)
(* place the order and returns a null order id, for every order type and     *)
(* with or without netting.                                                 *)
C19_DustOrderNotPlaced ==
    (call.op = "create_order" /\ call.outcome # "ValueError"
        /\ call.intent.quantity >= 0 /\ call.intent.quantity < MIN_LOT_SIZE) =>
        /\ Posts = <<>>
        /\ call.outcome = "return"
        /\ call.value = 0

(* C20: the side and quantity create_order submits are those of the          *)
(* normalized request: a negative quantity flips the side and is replaced    *)
(* by its absolute value, and the quantity is floored to the configured      *)
(* precision; so the submitted quantity is never negative, has no more than  *)
(* the configured decimals and never exceeds the absolute value asked for.   *)
NormalizedQty == (Abs(call.intent.quantity) \div RoundStep) * RoundStep

NormalizedSide ==
    IF call.intent.quantity < 0
    THEN (IF call.intent.side = "buy" THEN "sell" ELSE "buy")
    ELSE call.intent.side

C20_QuantityNormalized ==
    (call.op = "create_order" /\ ~call.intent.position_netting /\ Len(Posts) = 1) =>
        /\ Posts[1].qty = NormalizedQty
        /\ Posts[1].qty >= 0
        /\ Posts[1].qty % RoundStep = 0
        /\ Posts[1].qty <= Abs(call.intent.quantity)
        /\ call.value # 0 => history[Len(history)].side = NormalizedSide

-----------------------------------------------------------------------------
\* The failure the Gateway raised to the last call, "" when it raised none:
\* the transport's exception on the last attempt of a request whose retries
\* were used up, or the HTTPError of an error status.
GatewayFailure ==
    IF Len(call.plan) > MAX_RETRIES /\ Sent(log) THEN call.plan[MAX_RETRIES + 1]
    ELSE IF \E pid \in Deleted(log) : HttpError(pid) \in call.rej THEN "HTTPError"
    ELSE IF call.answer = "http_error" /\ Posted(log) THEN "HTTPError"
    ELSE ""

(* C21: a failure the Gateway raises during a step of close_position or      *)
(* create_order (a close, the order submission) leaves the call as the very  *)
(* same exception, and the failed request is the last one the call issues.   *)
C21_FailurePropagatesUnchanged ==
    (call.op \in {"close_position", "create_order"} /\ GatewayFailure # "") =>
        /\ call.outcome = GatewayFailure
        /\ ~log[Len(log)].ok
        /\ log[Len(log)].req \in {"DELETE_POSITION", "POST_ORDER"}

-----------------------------------------------------------------------------
(* C28: every order submission of create_order and every close of            *)
(* close_position goes out to the broker at most once, whatever the          *)
(* transport does to an attempt; a call opens at most one new position.      *)
C28_SentAtMostOnce ==
    call.op \in {"close_position", "create_order"} =>
        /\ \A i \in 1..Len(log) :
              log[i].req \in {"DELETE_POSITION", "POST_ORDER"} => log[i].sent <= 1
        /\ Len(Posts) <= 1
        /\ Cardinality(DOMAIN positions \ DOMAIN pre) <= 1

-----------------------------------------------------------------------------
\* what the Gateway is asked to close by the n-th close of the last call: a
\* submitted quantity of 0 asks for the whole position
AskedToClose(n) == IF Deletes[n].qty = 0 THEN Deletes[n].open ELSE Deletes[n].qty

(* C29: the closes a netting create_order for a quantity q >= 0 submits ask  *)
(* the Gateway to close at most q in all, a submitted quantity of 0 counting *)
(* as the whole position; for q = 0 nothing is closed.                       *)
C29_NettingClosesAtMostRequested ==
    (Netting /\ call.intent.quantity >= 0) =>
        SeqSum([n \in 1..Len(Deletes) |-> AskedToClose(n)]) <= call.intent.quantity

-----------------------------------------------------------------------------
(* The retry wrapper on its own: one run of _retry_request, step by step,   *)
(* under every plan of what the invocations of the request raise.            *)

MaxFaults == 5           \* raising invocations planned, at most

Plans == UNION {[1..k -> RequestExceptions \cup {"OtherError"}] : k \in 0..MaxFaults}

\* no trading call is under way
TradingIdle ==
    /\ positions = <<>>
    /\ history = <<>>
    /\ cache = {}
    /\ call = NoCall
    /\ log = <<>>
    /\ pre = <<>>
    /\ callsLeft = 0
    /\ scen = 0

RetryInit ==
    /\ TradingIdle /\ TokenIdle /\ SessionIdle /\ HistoryIdle
    /\ \E plan \in Plans : rt = RetryStart(plan)

\* an iteration of the for loop
RetryAttempt ==
    /\ rt.pc = "loop"
    /\ rt' = RetryStep(rt)
    /\ UNCHANGED <<tradeVars, tokenVars, sessionVars, historyVars>>

\* the call after the loop
RetryFinal ==
    /\ rt.pc = "final"
    /\ rt' = RetryStep(rt)
    /\ UNCHANGED <<tradeVars, tokenVars, sessionVars, historyVars>>

RetryNext == RetryAttempt \/ RetryFinal

\* The wrapper is straight-line code around a bounded loop: every invocation
\* of the request returns or raises (requests are made with a timeout) and
\* the sleep before it ends, so a step that can be taken is taken.
RetrySpec == RetryInit /\ [][RetryNext]_vars /\ WF_vars(RetryNext)

\* the first invocation that does not raise a RequestException, if one of
\* the MAX_RETRIES + 1 does, else the last one
Decisive(plan) ==
    IF \E n \in 1..(MAX_RETRIES + 1) : Attempt(plan, n) \notin RequestExceptions
    THEN CHOOSE n \in 1..(MAX_RETRIES + 1) :
            /\ Attempt(plan, n) \notin RequestExceptions
            /\ \A m \in 1..(n - 1) : Attempt(plan, m) \in RequestExceptions
    ELSE MAX_RETRIES + 1

RetryAsClaimed ==
    /\ rt.invoked <= MAX_RETRIES + 1
    /\ rt.pc = "done" => /\ rt.invoked = Decisive(rt.plan)
                          /\ rt.result = Attempt(rt.plan, Decisive(rt.plan))

(* C27: _retry_request invokes the request at most 4 times and comes to an   *)
(* end; it stops at the first invocation that returns (its response is the   *)
(* result) or raises anything but a RequestException (which propagates at    *)
(* once), and when all 4 raise RequestException the last one's propagates.   *)
C27_RetryBoundedAndEnds == []RetryAsClaimed /\ <>(rt.pc = "done")

\* all four invocations raised, and the fourth exception came out
C27_Witness ==
    /\ rt.pc = "done"
    /\ rt.invoked = MAX_RETRIES + 1
    /\ Len(rt.plan) > MAX_RETRIES + 1
    /\ rt.plan[1] = "ConnectionError"
    /\ rt.plan[MAX_RETRIES + 1] = "ReadTimeout"
    /\ rt.result = "ReadTimeout"

-----------------------------------------------------------------------------
(* Access tokens: get_access_token and the requests it makes, as a machine  *)
(* with a call stack, one step per statement that calls, sends or returns.   *)

THIRTY_MINUTES == 1800               \* datetime.timedelta(minutes=30).total_seconds()

MaxDepth == 8            \* frames on the call stack, at most (Python: recursion limit)

\* a JWT is known by its expiry time ("exp") and by who issued it to the
\* client; NoToken is the empty string
Token(exp, src) == [exp |-> exp, src |-> src]

NoToken == Token(0, "none")

\* utils.time_to_token_expiry: 0 for no token, else exp - now (seconds)
time_to_token_expiry(token, now) == IF token = NoToken THEN 0 ELSE token.exp - now

Frame(fn, pc, arg) == [fn |-> fn, pc |-> pc, arg |-> arg]

\* A client (its tokens, whether it holds credentials) at time now, facing a
\* server (how it answers /auth/jwt/token and /auth/jwt/refresh and how long
\* the tokens it issues live), about to run the call in frame.
Machine(access, refresh, credentials, now, server, frame) ==
    [access |-> access, refresh |-> refresh, credentials |-> credentials,
     now |-> now, server |-> server, stack |-> <<frame>>, wire |-> <<>>,
     outcome |-> "running", got |-> NoToken, auths |-> 0, refreshes |-> 0,
     stored |-> [access |-> access, refresh |-> refresh]]

Top(m) == m.stack[Len(m.stack)]

Pop(m) == [m EXCEPT !.stack = SubSeq(@, 1, Len(@) - 1),
                    !.outcome = IF Len(m.stack) = 1 THEN "return" ELSE @]

SetPc(m, pc) == [m EXCEPT !.stack[Len(m.stack)].pc = pc]

\* An exception leaves every frame; _auth_with_password alone catches
\* (except Exception) and raises ValueError from it.
Raise(m, exc) ==
    [m EXCEPT !.stack = <<>>,
              !.outcome = IF \E i \in 1..Len(m.stack) : m.stack[i].fn = "_auth_with_password"
                          THEN "ValueError" ELSE exc]

\* a call: the caller goes on at pc when the callee returns
Call(m, pc, frame) ==
    IF Len(m.stack) >= MaxDepth
    THEN Raise(m, "RecursionError")
    ELSE [SetPc(m, pc) EXCEPT !.stack = Append(@, frame)]

\* the token requests ask for the Authorization header as well
IncludeAccessTokenAlways(route) == TRUE

\* include_access_token of the _request for a route: False in
\* _auth_with_password and refresh_access_tokens, the default True elsewhere
IncludeAccessToken(route) == route \notin {"/auth/jwt/token", "/auth/jwt/refresh"}

\* the answer of the server to a request
Answer(m, route) ==
    IF route = "/auth/jwt/token" THEN m.server.auth
    ELSE IF route = "/auth/jwt/refresh" THEN m.server.refresh
    ELSE "ok"

\* time_to_token_expiry(self._access_token) < 30 minutes
RefreshDue(m) == time_to_token_expiry(m.access, m.now) < THIRTY_MINUTES

\* a refresh token is given up only with one second less to live
ReauthDueLate(m) == m.access = NoToken \/ time_to_token_expiry(m.refresh, m.now) < 0 - 1

\* not self._access_token or time_to_token_expiry(self._refresh_token) < 0
ReauthDue(m) == m.access = NoToken \/ time_to_token_expiry(m.refresh, m.now) < 0

TokenStep(m) ==
    LET f == Top(m)
    IN  CASE f.fn = "_request" /\ f.pc = "headers" ->
               Call(m, "send", Frame("_get_headers", "start",
                                     IF IncludeAccessToken(f.arg) THEN "token" ELSE "no token"))
          [] f.fn = "_request" /\ f.pc = "send" ->
               LET sent == [m EXCEPT !.wire = Append(@, [route |-> f.arg,
                                                         authorization |-> IncludeAccessToken(f.arg),
                                                         refreshToken |-> IF f.arg = "/auth/jwt/refresh"
                                                                          THEN m.refresh ELSE NoToken])]
               IN  IF Answer(m, f.arg) = "error" THEN Raise(sent, "HTTPError") ELSE Pop(sent)
          [] f.fn = "_get_headers" /\ f.pc = "start" ->
               IF f.arg = "token" THEN Call(m, "done", Frame("get_access_token", "check", ""))
               ELSE Pop(m)
          [] f.fn = "_get_headers" /\ f.pc = "done" -> Pop(m)
          [] f.fn = "get_access_token" /\ f.pc = "check" ->
               IF ReauthDue(m)
               THEN IF ~m.credentials THEN Raise(m, "TLAPIException")
                    ELSE Call(m, "expiry", Frame("_auth_with_password", "request", ""))
               ELSE SetPc(m, "expiry")
          [] f.fn = "get_access_token" /\ f.pc = "expiry" ->
               IF RefreshDue(m)
               THEN Call(m, "return", Frame("refresh_access_tokens", "request", ""))
               ELSE SetPc(m, "return")
          [] f.fn = "get_access_token" /\ f.pc = "return" ->
               Pop([m EXCEPT !.got = m.access])
          [] f.fn = "_auth_with_password" /\ f.pc = "request" ->
               Call([m EXCEPT !.auths = @ + 1], "store", Frame("_request", "headers", "/auth/jwt/token"))
          [] f.fn = "_auth_with_password" /\ f.pc = "store" ->
               Pop([m EXCEPT !.access = Token(m.now + m.server.life, "auth"),
                             !.refresh = Token(m.now + m.server.refreshLife, "auth")])
          [] f.fn = "refresh_access_tokens" /\ f.pc = "request" ->
               Call([m EXCEPT !.refreshes = @ + 1], "store", Frame("_request", "headers", "/auth/jwt/refresh"))
          [] f.fn = "refresh_access_tokens" /\ f.pc = "store" ->
               IF Answer(m, "/auth/jwt/refresh") = "no_refresh_token"
               THEN Raise([m EXCEPT !.access = Token(m.now + m.server.life, "refresh")], "KeyError")
               ELSE Pop([m EXCEPT !.access = Token(m.now + m.server.life, "refresh"),
                                  !.refresh = Token(m.now + m.server.refreshLife, "refresh")])

RECURSIVE TokenRun(_)
TokenRun(m) == IF m.stack = <<>> THEN m ELSE TokenRun(TokenStep(m))

\* The tokens a client may hold when a call starts: none yet, or a pair it
\* was given or fetched earlier, each token expired, about to expire or good
\* for long (the time of the call is 0).
StoredTokens ==
    {<<NoToken, NoToken>>} \cup
    ({Token(e, "stored") : e \in {0 - 1, THIRTY_MINUTES - 1, THIRTY_MINUTES, 4 * THIRTY_MINUTES}}
        \X {Token(e, "stored") : e \in {0 - 1, 0, 48 * THIRTY_MINUTES}})

\* The servers: each answers the password authentication with tokens or
\* with an error status, the refresh with tokens, with an error status or
\* without a refreshToken, and issues access tokens that live 15 or 60
\* minutes and refresh tokens that live a day.
Servers ==
    [auth : {"ok", "error"}, refresh : {"ok", "error", "no_refresh_token"},
     life : {THIRTY_MINUTES \div 2, 2 * THIRTY_MINUTES}, refreshLife : {48 * THIRTY_MINUTES}]

\* a request of the API, or get_access_token called by the user
EntryFrames ==
    {Frame("_request", "headers", "/trade/config"), Frame("get_access_token", "check", "")}

TokenInit ==
    /\ TradingIdle /\ RetryIdle /\ SessionIdle /\ HistoryIdle
    /\ \E t \in StoredTokens, credentials \in BOOLEAN, server \in Servers,
          frame \in EntryFrames :
          tk = Machine(t[1], t[2], credentials, 0, server, frame)

\* the function on top of the stack is fn
Running(fn) == tk.stack # <<>> /\ Top(tk).fn = fn

\* the next statement of _request
RequestStatement ==
    /\ Running("_request")
    /\ tk' = TokenStep(tk)
    /\ UNCHANGED <<tradeVars, retryVars, sessionVars, historyVars>>

GetHeadersStatement ==
    /\ Running("_get_headers")
    /\ tk' = TokenStep(tk)
    /\ UNCHANGED <<tradeVars, retryVars, sessionVars, historyVars>>

GetAccessTokenStatement ==
    /\ Running("get_access_token")
    /\ tk' = TokenStep(tk)
    /\ UNCHANGED <<tradeVars, retryVars, sessionVars, historyVars>>

AuthWithPasswordStatement ==
    /\ Running("_auth_with_password")
    /\ tk' = TokenStep(tk)
    /\ UNCHANGED <<tradeVars, retryVars, sessionVars, historyVars>>

RefreshAccessTokensStatement ==
    /\ Running("refresh_access_tokens")
    /\ tk' = TokenStep(tk)
    /\ UNCHANGED <<tradeVars, retryVars, sessionVars, historyVars>>

TokenNext ==
    \/ RequestStatement
    \/ GetHeadersStatement
    \/ GetAccessTokenStatement
    \/ AuthWithPasswordStatement
    \/ RefreshAccessTokensStatement

\* The client is single threaded and every statement ends: a request is
\* answered or times out, and nothing else waits.  So the statement on top
\* of the stack is executed in the end.
TokenSpec == TokenInit /\ [][TokenNext]_vars /\ WF_vars(TokenNext)

\* its expiry time lies in the past
Expired(token, now) == token # NoToken /\ token.exp < now

RefreshRequests == SelectSeq(tk.wire, LAMBDA w : w.route = "/auth/jwt/refresh")

(* C24: the token get_access_token returns is the stored one with at least   *)
(* 30 minutes to live, or one obtained in this call by password              *)
(* authentication or refresh; no refresh request carries an expired refresh  *)
(* token: if the stored one has expired (or no token is stored) the client   *)
(* authenticates with its credentials first, or without credentials raises   *)
(* TLAPIException having sent nothing; after a refresh that succeeded both   *)
(* stored tokens are those of the refresh response.                          *)
C24_AccessToken ==
    /\ tk.got # NoToken =>
          \/ /\ tk.got = tk.stored.access
             /\ time_to_token_expiry(tk.got, tk.now) >= THIRTY_MINUTES
          \/ tk.got.src \in {"auth", "refresh"}
    /\ \A i \in 1..Len(RefreshRequests) : ~Expired(RefreshRequests[i].refreshToken, tk.now)
    /\ (tk.stored.access = NoToken \/ Expired(tk.stored.refresh, tk.now)) =>
          IF tk.credentials
          THEN RefreshRequests # <<>> => tk.wire[1].route = "/auth/jwt/token"
          ELSE tk.stack = <<>> => tk.outcome = "TLAPIException" /\ tk.wire = <<>>
    /\ (tk.got # NoToken /\ tk.refreshes > 0) =>
          tk.access.src = "refresh" /\ tk.refresh.src = "refresh" /\ tk.got = tk.access

\* stored refresh token expired: password authentication, whose access
\* token lives 15 minutes only, then a refresh, whose token is returned
C24_Witness ==
    /\ tk.stack = <<>>
    /\ tk.outcome = "return"
    /\ Expired(tk.stored.refresh, tk.now)
    /\ tk.auths = 1
    /\ tk.refreshes = 1
    /\ tk.got.src = "refresh"

\* the stored token is returned as it is
C24_WitnessStored ==
    /\ tk.stack = <<>>
    /\ tk.got = tk.stored.access
    /\ tk.got # NoToken
    /\ tk.wire = <<>>

-----------------------------------------------------------------------------
\* how many frames of fn are on the stack
Depth(fn) == Cardinality({i \in 1..Len(tk.stack) : tk.stack[i].fn = fn})

TokenRoutes == {"/auth/jwt/token", "/auth/jwt/refresh"}

NoReentry ==
    /\ \A i \in 1..Len(tk.wire) :
          tk.wire[i].route \in TokenRoutes => ~tk.wire[i].authorization
    /\ Depth("get_access_token") <= 1
    /\ Depth("_auth_with_password") + Depth("refresh_access_tokens") <= 1
    /\ (Depth("_auth_with_password") + Depth("refresh_access_tokens") = 1) =>
          Top(tk).fn # "get_access_token"
    /\ tk.auths <= 1
    /\ tk.refreshes <= 1
    /\ Len(tk.stack) < MaxDepth
    /\ \A i \in 1..Len(tk.wire) :
          tk.wire[i].route \notin TokenRoutes => i = Len(tk.wire)

(* C30: getting an access token comes to an end.  The password               *)
(* authentication and the refresh are sent without Authorization header and  *)
(* never enter get_access_token, so a request causes at most one password    *)
(* authentication and at most one refresh, both before it goes out, and the  *)
(* calls between _request, _get_headers, get_access_token and                *)
(* refresh_access_tokens never nest beyond a fixed depth.                    *)
C30_TokenTerminates == []NoReentry /\ <>(tk.stack = <<>>)

\* a request that went out after one password authentication and one refresh
C30_Witness ==
    /\ tk.stack = <<>>
    /\ tk.outcome = "return"
    /\ Len(tk.wire) = 3
    /\ tk.wire[1].route = "/auth/jwt/token"
    /\ tk.wire[2].route = "/auth/jwt/refresh"
    /\ tk.wire[3].route = "/trade/config" /\ tk.wire[3].authorization

-----------------------------------------------------------------------------
(* Construction: TLAPI(...) = __new__ (the registry of instances) followed  *)
(* by __init__ (authentication, choice of the account).                      *)

MaxObjects == 2          \* TLAPI objects created, at most
MaxTicks == 2            \* half hours the clock advances, at most
MaxAccounts == 2         \* accounts of the user, at most

\* multiton_key = (cls, args, frozenset(kwargs.items())): the arguments
Key(args) == args

\* what object.__new__ gives: an object without attributes
BlankObject ==
    [hasToken |-> FALSE, access |-> NoToken, refresh |-> NoToken, credentials |-> FALSE,
     account_id |-> 0, acc_num |-> 0, initialized |-> FALSE, accountsCached |-> FALSE]

\* the entry is reused whatever the age of its token
ReusableWhateverAge(reg, objs, key, now) == key \in DOMAIN reg /\ objs[reg[key]].hasToken

\* multiton_key in cls._instances and hasattr(..., "_access_token")
\* and time_to_token_expiry(..._access_token) > 0
Reusable(reg, objs, key, now) ==
    /\ key \in DOMAIN reg
    /\ objs[reg[key]].hasToken
    /\ time_to_token_expiry(objs[reg[key]].access, now) > 0

FirstWhere(list, Test(_)) ==
    IF \E i \in 1..Len(list) : Test(list[i])
    THEN CHOOSE i \in 1..Len(list) : Test(list[i]) /\ \A j \in 1..(i - 1) : ~Test(list[j])
    ELSE 0

\* "use the last account in the list"
SelectAccountLast(list, account_id, acc_num) ==
    IF account_id # 0 THEN FirstWhere(list, LAMBDA e : e.id = account_id)
    ELSE IF acc_num # 0 THEN FirstWhere(list, LAMBDA e : e.accNum = acc_num)
    ELSE Len(list)

\* _set_account_id_and_acc_num, the choice: the index of the row taken from
\* a list that is not empty, 0 where it raises ValueError
SelectAccount(list, account_id, acc_num) ==
    IF account_id # 0 THEN FirstWhere(list, LAMBDA e : e.id = account_id)
    ELSE IF acc_num # 0 THEN FirstWhere(list, LAMBDA e : e.accNum = acc_num)
    ELSE 1

\* the tokens a caller passes as access_token and refresh_token: issued at
\* time 0 for an hour and a day
GivenTokens == <<Token(2 * THIRTY_MINUTES, "stored"), Token(48 * THIRTY_MINUTES, "stored")>>

SessionServer(authAnswer) ==
    [auth |-> authAnswer, refresh |-> "ok", life |-> 2 * THIRTY_MINUTES,
     refreshLife |-> 48 * THIRTY_MINUTES]

\* the first part of __init__: the attributes are set, then the client
\* authenticates with the password or stores the tokens given; gives the
\* token machine at the end of it
Authenticate(args, now, server) ==
    IF args.mode = "password"
    THEN TokenRun(Machine(NoToken, NoToken, TRUE, now, server,
                          Frame("_auth_with_password", "request", "")))
    ELSE IF args.mode = "tokens"
    THEN [Machine(GivenTokens[1], GivenTokens[2], FALSE, now, server, Frame("", "", ""))
             EXCEPT !.stack = <<>>, !.outcome = "return"]
    ELSE [Machine(NoToken, NoToken, FALSE, now, server, Frame("", "", ""))
             EXCEPT !.stack = <<>>, !.outcome = "ValueError"]

\* get_all_accounts: answered from the cache of the object, or by a request
\* (which gets its access token first)
GetAllAccounts(o, m) ==
    IF o.accountsCached THEN m
    ELSE TokenRun([m EXCEPT !.stack = <<Frame("_request", "headers", "/auth/jwt/all-accounts")>>,
                            !.outcome = "running"])

\* __init__ past "if self._initialized: return"
Initialise(o, args, now, list, server) ==
    Let(Authenticate(args, now, server), LAMBDA a :
        LET o1 == [o EXCEPT !.hasToken = TRUE, !.access = a.access, !.refresh = a.refresh,
                            !.credentials = (args.mode = "password"),
                            !.account_id = 0, !.acc_num = 0]
        IN  IF a.outcome # "return"
            THEN [obj |-> o1, outcome |-> a.outcome, wire |-> a.wire]
            ELSE Let(GetAllAccounts(o1, a), LAMBDA m :
                 LET o2 == [o1 EXCEPT !.access = m.access, !.refresh = m.refresh]
                     i == SelectAccount(list, args.account_id, args.acc_num)
                 IN  IF m.outcome # "return"
                     THEN [obj |-> o2, outcome |-> m.outcome, wire |-> m.wire]
                     ELSE IF list = <<>>
                     THEN [obj |-> o2, outcome |-> "TLAPIException", wire |-> m.wire]
                     ELSE IF i = 0
                     THEN [obj |-> [o2 EXCEPT !.accountsCached = TRUE],
                           outcome |-> "ValueError", wire |-> m.wire]
                     ELSE [obj |-> [o2 EXCEPT !.accountsCached = TRUE,
                                               !.account_id = list[i].id,
                                               !.acc_num = list[i].accNum,
                                               !.initialized = TRUE],
                           outcome |-> "return", wire |-> m.wire]))

\* __init__
init(o, args, now, list, server) ==
    IF o.initialized
    THEN [obj |-> o, outcome |-> "return", wire |-> <<>>, ran |-> FALSE]
    ELSE Let(Initialise(o, args, now, list, server), LAMBDA r :
             [obj |-> r.obj, outcome |-> r.outcome, wire |-> r.wire, ran |-> TRUE])

\* the account lists a server may hold: ids and account numbers are distinct
AccountLists ==
    {l \in UNION {[1..n -> [id : {11, 12}, accNum : {1, 2}]] : n \in 0..MaxAccounts} :
        \A i, j \in 1..Len(l) : i # j => l[i].id # l[j].id /\ l[i].accNum # l[j].accNum}

\* the arguments: how to authenticate, and the account wanted (0: not given;
\* 99 and 9 are no account of the user)
Arguments ==
    {a \in [mode : {"password", "tokens", "none"}, account_id : {0, 11, 99}, acc_num : {0, 2, 9}] :
        a.mode = "none" => a.account_id = 0 /\ a.acc_num = 0}

NoConstruction ==
    [args |-> [mode |-> "none", account_id |-> 0, acc_num |-> 0], object |-> 0,
     prior |-> 0, priorTime |-> 0, priorInitialized |-> FALSE, created |-> FALSE,
     ran |-> FALSE, outcome |-> "none", wire |-> <<>>]

SessionInit ==
    /\ TradingIdle /\ RetryIdle /\ TokenIdle /\ HistoryIdle
    /\ clock = 0
    /\ accounts \in AccountLists
    /\ registry = <<>>
    /\ objects = <<>>
    /\ made = NoConstruction

\* TLAPI(**args): __new__ looks the arguments up in the registry and takes
\* the object found or puts a new one there, then __init__ runs on it
Construct ==
    \E args \in Arguments, authAnswer \in {"ok", "error"} :
        LET key == Key(args)
            prior == IF key \in DOMAIN registry THEN registry[key] ELSE 0
            reuse == Reusable(registry, objects, key, clock)
            id == IF reuse THEN registry[key] ELSE Len(objects) + 1
            self == IF reuse THEN objects[id] ELSE BlankObject
        IN  /\ reuse \/ Len(objects) < MaxObjects
            /\ authAnswer = "error" => args.mode = "password" /\ ~self.initialized
            /\ \E r \in {init(self, args, clock, accounts, SessionServer(authAnswer))} :
                /\ objects' = [i \in 1..(IF reuse THEN Len(objects) ELSE id) |->
                                  IF i = id THEN r.obj ELSE objects[i]]
                /\ registry' = [k \in DOMAIN registry \cup {key} |->
                                   IF k = key THEN id ELSE registry[k]]
                /\ made' = [args |-> args, object |-> id,
                            prior |-> prior,
                            priorTime |-> IF prior = 0 THEN 0
                                          ELSE time_to_token_expiry(objects[prior].access, clock),
                            priorInitialized |-> prior # 0 /\ objects[prior].initialized,
                            created |-> ~reuse, ran |-> r.ran,
                            outcome |-> r.outcome, wire |-> r.wire]
            /\ UNCHANGED <<clock, accounts>>
            /\ UNCHANGED <<tradeVars, retryVars, tokenVars, historyVars>>

\* half an hour passes
Tick ==
    /\ clock < MaxTicks * THIRTY_MINUTES
    /\ clock' = clock + THIRTY_MINUTES
    /\ UNCHANGED <<accounts, registry, objects, made>>
    /\ UNCHANGED <<tradeVars, retryVars, tokenVars, historyVars>>

SessionNext == Construct \/ Tick

SessionSpec == SessionInit /\ [][SessionNext]_vars

-----------------------------------------------------------------------------
(* Claims on the construction.                                               *)

Constructed == made.outcome # "none"
Self == objects[made.object]

\* the id the rule looks for is no account of the user
NotInList ==
    \/ made.args.account_id # 0 /\ \A i \in 1..Len(accounts) : accounts[i].id # made.args.account_id
    \/ /\ made.args.account_id = 0 /\ made.args.acc_num # 0
       /\ \A i \in 1..Len(accounts) : accounts[i].accNum # made.args.acc_num

C23_WitnessRefused ==
    /\ made.outcome = "ValueError" /\ made.args.account_id = 99 /\ made.args.acc_num = 2
    /\ \E i \in 1..Len(accounts) : accounts[i].accNum = 2
    /\ made.wire # <<>>

\* the registry held an instance for these arguments whose access token
\* had not expired
PriorLive == made.prior # 0 /\ made.priorTime > 0
SameInstance == made.object = made.prior /\ ~made.created
NewInstance ==
    /\ made.created /\ made.object # made.prior
    /\ registry[Key(made.args)] = made.object
    /\ made.ran

\* C22 as stated: a construction with the arguments of an instance whose
\* access token has not expired returns that instance and initialises
\* nothing (no request is sent); any other construction gives a new
\* instance, initialised from scratch, that takes the place in the registry.
C22_MultitonReuse ==
    Constructed =>
        IF PriorLive THEN SameInstance /\ ~made.ran /\ made.wire = <<>>
        ELSE NewInstance

\* C22: a construction with the arguments of an instance whose access token
\* has not expired returns that instance; it initialises nothing (no request
\* is sent) when the construction of that instance had completed, and runs
\* the initialisation on it again when it had failed. Any other
\* construction gives a new instance, initialised from scratch, that takes
\* the place in the registry.
C22_MultitonReuseInitialised ==
    Constructed =>
        IF PriorLive
        THEN /\ SameInstance
             /\ made.priorInitialized => ~made.ran /\ made.wire = <<>>
             /\ ~made.priorInitialized => made.ran
        ELSE NewInstance

\* an instance reused without initialisation
C22_Witness ==
    /\ PriorLive /\ made.priorInitialized /\ SameInstance
    /\ made.outcome = "return" /\ made.wire = <<>>

\* the token of the instance in the registry has expired: a new instance
C22_WitnessExpired ==
    /\ made.prior # 0 /\ made.priorTime <= 0 /\ NewInstance /\ made.outcome = "return"

\* an instance whose construction failed after authentication is found by
\* the next construction, which authenticates again
C22_HalfBuiltReused ==
    /\ PriorLive /\ ~made.priorInitialized /\ SameInstance
    /\ made.ran /\ made.wire # <<>>

-----------------------------------------------------------------------------
(* Price history: the range asked for is resolved from the timestamps or    *)
(* the lookback period, its size is estimated and compared with the limit   *)
(* of the server, then the bars are requested.                              *)
(* Time is counted in seconds: a timestamp t of the model is the timestamp  *)
(* t * MS_COEFF of the program, in milliseconds.                            *)

MaxHistoryCalls == 2     \* calls of get_price_history, at most
MaxHistoryTicks == 1     \* minutes the clock advances, at most

\* RESOLUTION_COEFF_MS[unit] / MS_COEFF
RESOLUTION_COEFF_MS(unit) ==
    CASE unit = "s" -> 1
      [] unit = "m" -> 60
      [] unit = "H" -> 60 * 60
      [] unit = "D" -> 24 * 60 * 60
      [] unit = "W" -> 7 * 24 * 60 * 60
      [] unit = "M" -> 30 * 24 * 60 * 60
      [] unit = "Y" -> 365 * 24 * 60 * 60

Units == {"s", "m", "H", "D", "W", "M", "Y"}

\* a string is the sequence of its characters
DigitValue(c) ==
    CASE c = "0" -> 0 [] c = "1" -> 1 [] c = "2" -> 2 [] c = "3" -> 3 [] c = "4" -> 4
      [] c = "5" -> 5 [] c = "6" -> 6 [] c = "7" -> 7 [] c = "8" -> 8 [] c = "9" -> 9

DigitChars == {"0", "1", "2", "3", "4", "5", "6", "7", "8", "9"}

RECURSIVE DigitsValue(_)
DigitsValue(cs) ==
    IF cs = <<>> THEN 0
    ELSE 10 * DigitsValue(SubSeq(cs, 1, Len(cs) - 1)) + DigitValue(cs[Len(cs)])

\* int(s): an optional sign, then one digit or more; ValueError otherwise
int(cs) ==
    LET signed == cs # <<>> /\ cs[1] \in {"-", "+"}
        ds == IF signed THEN Tail(cs) ELSE cs
    IN  IF ds = <<>> \/ \E i \in 1..Len(ds) : ds[i] \notin DigitChars
        THEN [ok |-> FALSE, value |-> 0]
        ELSE [ok |-> TRUE,
              value |-> IF cs[1] = "-" THEN 0 - DigitsValue(ds) ELSE DigitsValue(ds)]

\* int(x) of a quotient: the fraction is dropped, towards zero
IntTrunc(a, b) == IF a >= 0 THEN a \div b ELSE 0 - ((0 - a) \div b)

NoRange == <<>>

\* timestamps_from_lookback(lookback_period), at the time now
timestamps_from_lookback(lookback_period, now) ==
    LET n == int(SubSeq(lookback_period, 1, Len(lookback_period) - 1))
        unit == lookback_period[Len(lookback_period)]
    IN  IF ~(Len(lookback_period) > 1) THEN [exc |-> "AssertionError", range |-> NoRange]
        ELSE IF ~n.ok THEN [exc |-> "ValueError", range |-> NoRange]
        ELSE IF unit \notin Units THEN [exc |-> "ValueError", range |-> NoRange]
        ELSE [exc |-> "", range |-> <<now - n.value * RESOLUTION_COEFF_MS(unit), now>>]

\* resolve_lookback_and_timestamps(lookback_period, start_timestamp,
\* end_timestamp), at the time now
resolve_lookback_and_timestamps(lookback_period, start_timestamp, end_timestamp, now) ==
    LET end == IF end_timestamp = 0 THEN now ELSE end_timestamp
        valid_timestamps == start_timestamp # 0 /\ end # 0 /\ start_timestamp <= end
        r == timestamps_from_lookback(lookback_period, now)
    IN  IF valid_timestamps THEN [exc |-> "", range |-> <<start_timestamp, end>>]
        ELSE IF r.exc # "" THEN [exc |-> "ValueError", range |-> NoRange]
        ELSE r

\* estimate_history_size(start_timestamp, end_timestamp, resolution)
estimate_history_size(start_timestamp, end_timestamp, resolution) ==
    LET total == end_timestamp - start_timestamp
        coeff == int(SubSeq(resolution, 1, Len(resolution) - 1)).value
                     * RESOLUTION_COEFF_MS(resolution[Len(resolution)])
    IN  IntTrunc(total, coeff)

\* the limit is taken as reached by a size equal to it
TooLargeOrEqual(history_size, limit) == history_size >= limit

\* history_size > self.max_price_history_rows()
TooLarge(history_size, limit) == history_size > limit

\* the QUOTES_HISTORY_BARS limit in the config of the server
QUOTES_HISTORY_BARS == 3

ConfigRequest == [route |-> "/trade/config", resolution |-> <<>>, from |-> 0, to |-> 0]
HistoryRequest(resolution, from, to) ==
    [route |-> "/trade/history", resolution |-> resolution, from |-> from, to |-> to]

\* get_price_history: c is what the object has cached (the limit, once
\* read from the config; the answers of _request_history_cacheable by
\* their arguments), route tells whether the instrument has an INFO route
get_price_history(c, now, route, a) ==
    Let(resolve_lookback_and_timestamps(a.lookback_period, a.start_timestamp,
                                        a.end_timestamp, now), LAMBDA r :
        IF r.exc # ""
        THEN [outcome |-> r.exc, range |-> NoRange, size |-> 0, asked |-> NoRange,
              wire |-> <<>>, cache |-> c]
        ELSE LET size == estimate_history_size(r.range[1], r.range[2], a.resolution)
                 wire == IF c.config THEN <<>> ELSE <<ConfigRequest>>
                 c1 == [c EXCEPT !.config = TRUE]
                 key == <<a.resolution, r.range[1], r.range[2]>>
             IN  IF TooLarge(size, QUOTES_HISTORY_BARS)
                 THEN [outcome |-> "ValueError", range |-> r.range, size |-> size,
                       asked |-> NoRange, wire |-> wire, cache |-> c1]
                 ELSE IF ~route
                 THEN [outcome |-> "TLAPIException", range |-> r.range, size |-> size,
                       asked |-> NoRange, wire |-> wire, cache |-> c1]
                 ELSE [outcome |-> "return", range |-> r.range, size |-> size,
                       asked |-> r.range,
                       wire |-> IF key \in c.ranges THEN wire
                                ELSE Append(wire, HistoryRequest(a.resolution, r.range[1],
                                                                 r.range[2])),
                       cache |-> [c1 EXCEPT !.ranges = @ \cup {key}]])

\* the time of the first call
Now0 == 1000

Lookbacks ==
    {<<>>, <<"m">>, <<"5">>, <<"1", "m">>, <<"5", "m">>, <<"-", "1", "m">>, <<"m", "4">>,
     <<"5", "x">>, <<"1", "5", "m">>, <<"1", "D">>, <<"-", "m">>, <<"1", "Y">>}

Resolutions == {<<"1", "m">>, <<"5", "m">>}

Starts == {0, Now0 - 239, Now0 - 60, Now0 + 600}
Ends == {0, Now0 - 60, Now0}

NoHistoryCall ==
    [lookback_period |-> <<>>, start_timestamp |-> 0, end_timestamp |-> 0,
     resolution |-> <<>>, outcome |-> "none", range |-> NoRange, size |-> 0,
     asked |-> NoRange, wire |-> <<>>, now |-> 0, cached |-> FALSE]

HistoryInit ==
    /\ TradingIdle /\ RetryIdle /\ TokenIdle /\ SessionIdle
    /\ \E route \in BOOLEAN :
           ph = [now |-> Now0, left |-> MaxHistoryCalls, route |-> route, call |-> NoHistoryCall]
    /\ fetched = [config |-> FALSE, ranges |-> {}]

GetPriceHistory ==
    /\ ph.left > 0
    /\ \E lookback_period \in Lookbacks, start_timestamp \in Starts, end_timestamp \in Ends,
          resolution \in Resolutions :
          LET a == [lookback_period |-> lookback_period, start_timestamp |-> start_timestamp,
                    end_timestamp |-> end_timestamp, resolution |-> resolution]
          IN  \E r \in {get_price_history(fetched, ph.now, ph.route, a)} :
                  /\ ph' = [ph EXCEPT !.left = @ - 1,
                                      !.call = [lookback_period |-> lookback_period,
                                                start_timestamp |-> start_timestamp,
                                                end_timestamp |-> end_timestamp,
                                                resolution |-> resolution,
                                                outcome |-> r.outcome, range |-> r.range,
                                                size |-> r.size, asked |-> r.asked,
                                                wire |-> r.wire, now |-> ph.now,
                                                cached |-> r.range # NoRange /\
                                                    <<resolution, r.range[1], r.range[2]>>
                                                        \in fetched.ranges]]
                  /\ fetched' = r.cache
    /\ UNCHANGED <<tradeVars, retryVars, tokenVars, sessionVars>>

\* a minute passes
HistoryTick ==
    /\ ph.now < Now0 + 60 * MaxHistoryTicks
    /\ ph' = [ph EXCEPT !.now = @ + 60]
    /\ UNCHANGED fetched
    /\ UNCHANGED <<tradeVars, retryVars, tokenVars, sessionVars>>

HistoryNext == GetPriceHistory \/ HistoryTick

HistorySpec == HistoryInit /\ [][HistoryNext]_vars

-----------------------------------------------------------------------------
(* Claims on the price history.                                              *)

HistoryCalled == ph.call.outcome # "none"

\* the end given, the time of the call standing for 0
GivenEnd == IF ph.call.end_timestamp = 0 THEN ph.call.now ELSE ph.call.end_timestamp
GivenValid == ph.call.start_timestamp # 0 /\ ph.call.start_timestamp <= GivenEnd

\* the lookback period is a number followed by one of the units
Lookback == timestamps_from_lookback(ph.call.lookback_period, ph.call.now)

\* C26: resolve_lookback_and_timestamps returns the pair given when start
\* is not 0 and start <= end (the time of the call standing for an end of
\* 0), otherwise the pair derived from the lookback period, and raises
\* ValueError when there is neither (no lookback or a malformed one); in
\* every pair it returns start <= end.
C26_ResolvedRange ==
    HistoryCalled =>
        /\ GivenValid => ph.call.range = <<ph.call.start_timestamp, GivenEnd>>
        /\ ~GivenValid /\ Lookback.exc = "" => ph.call.range = Lookback.range
        /\ ~GivenValid /\ Lookback.exc # "" =>
              ph.call.outcome = "ValueError" /\ ph.call.range = NoRange
        /\ ph.call.range # NoRange => ph.call.range[1] <= ph.call.range[2]

\* the same, for lookback periods that are not negative
C26_ResolvedRangeUnsigned ==
    ("-" \notin {ph.call.lookback_period[i] : i \in 1..Len(ph.call.lookback_period)})
        => C26_ResolvedRange

\* a negative lookback period gives a range that ends before it starts
C26_RangeReversed ==
    /\ HistoryCalled /\ ph.call.range # NoRange
    /\ ph.call.range[1] > ph.call.range[2]
    /\ ph.call.outcome = "return" /\ ph.call.wire # <<>>

Resolved == ph.call.range # NoRange

\* (end - start) divided by the length of the resolution, truncated
Bars ==
    LET span == ph.call.range[2] - ph.call.range[1]
        length == DigitsValue(SubSeq(ph.call.resolution, 1, Len(ph.call.resolution) - 1))
                      * RESOLUTION_COEFF_MS(ph.call.resolution[Len(ph.call.resolution)])
    IN  IF span >= 0 THEN span \div length ELSE 0 - ((0 - span) \div length)

HistoryRequests == SelectSeq(ph.call.wire, LAMBDA q : q.route = "/trade/history")

\* C25: when the estimated number of bars is above the QUOTES_HISTORY_BARS
\* limit, get_price_history raises ValueError and asks for no history; when
\* it is within the limit (and the instrument has an INFO route) the
\* history is asked for exactly the resolved range: one request with that
\* from and to, or none when the answer for these arguments is in the cache
\* of the object.
C25_LimitChecked ==
    HistoryCalled /\ Resolved =>
        /\ Bars > QUOTES_HISTORY_BARS =>
              /\ ph.call.outcome = "ValueError"
              /\ ph.call.asked = NoRange
              /\ HistoryRequests = <<>>
        /\ Bars <= QUOTES_HISTORY_BARS /\ ph.route =>
              /\ ph.call.outcome = "return"
              /\ ph.call.asked = ph.call.range
              /\ HistoryRequests =
                     IF ph.call.cached THEN <<>>
                     ELSE <<HistoryRequest(ph.call.resolution, ph.call.range[1],
                                           ph.call.range[2])>>
        /\ Bars <= QUOTES_HISTORY_BARS /\ ~ph.route =>
              ph.call.outcome = "TLAPIException" /\ HistoryRequests = <<>>

\* a range of just under four minutes at one minute per bar: three bars,
\* the limit, and the history is requested
C25_Witness ==
    /\ HistoryCalled /\ Resolved /\ Bars = QUOTES_HISTORY_BARS
    /\ ph.call.range[2] - ph.call.range[1] = 239
    /\ Len(HistoryRequests) = 1

\* a range above the limit, refused
C25_WitnessRefused ==
    /\ HistoryCalled /\ Resolved /\ Bars > QUOTES_HISTORY_BARS
    /\ ph.call.outcome = "ValueError" /\ ph.route

\* the same range asked for again: no request
C25_WitnessCached ==
    /\ HistoryCalled /\ Resolved /\ ph.call.cached /\ ph.call.outcome = "return"

====
